---- MODULE Spec2Model ----
(***************************************************************************)
(* The SQL transformation pipeline of psearch/gen_ai and its task store.   *)
(*                                                                         *)
(*   task_manager.py            the process-wide dict task_status and its  *)
(*                              operations init_task, update_task_status,  *)
(*                              add_task_log, get_task_status              *)
(*   transformation_pipeline.py TransformationPipeline.execute_pipeline    *)
(*   main.py                    generate_sql_task, which starts the runs   *)
(*   services/sql               the functions of the generator, the        *)
(*                              enhancer, the fixer, the Field Analyzer    *)
(*                              and GenAIClient, on texts of tokens        *)
(*   tooling/enrichment         process_products and its FirestoreClient   *)
(*                                                                         *)
(* Seven specifications: Spec (one run of the pipeline), StoreSpec         *)
(* (clients of the task store), ReaderSpec (the store and a client that    *)
(* changes the dict it was handed), ConcurrentSpec (two runs, each in its  *)
(* own thread), FunctionSpec (one call of a function of the SQL services), *)
(* ResponseSpec (a run whose collaborators compute what they return from   *)
(* the model's response), FirestoreSpec (runs of process_products, which   *)
(* may be interrupted).                                                    *)
(*                                                                         *)
(* A Python string is a tuple of fragments, so that an f-string is the     *)
(* concatenation of its parts and "the error contains X" is a question     *)
(* about fragments.  The empty string is the empty tuple; None is a        *)
(* reserved one-fragment tuple.                                            *)
(***************************************************************************)
EXTENDS Integers, Sequences, FiniteSets, TLC

VARIABLES
    task_status,   \* task_manager.task_status: task id -> task record
    clock,         \* the wall clock read by datetime.now()
    lastOp,        \* history: the last task-store operation a client invoked
    pc,            \* per task id: where its execute_pipeline run stands
    args,          \* per task id: the arguments of its execute_pipeline call
    loc,           \* per task id: the local variables of execute_pipeline
    calls,         \* history, per task id: the collaborator calls of the run
    held,          \* a client that reads a task and then changes what it was
                   \* handed: where it stands, and the dict in its hands
    stores,        \* per task id, for runs in threads of their own: the
                   \* task-store calls the run has made, and those of its
                   \* current stretch it has yet to make
    io,            \* the last call of a function of the SQL services: the
                   \* function, what it was given, what it handed back
    firestore      \* the enrichment script: its Firestore collection and
                   \* where its run of process_products stands

vars == <<task_status, clock, lastOp, pc, args, loc, calls, held, stores, io,
          firestore>>

-----------------------------------------------------------------------------
(* Bounds of the model *)

\* largest max_fix_attempts a run is started with
MaxFixAttempts == 3
\* the task-store specification stops invoking operations at this clock value
MaxClock == 8
\* with a reading client, the store's operations stop at this clock value
MaxReaderClock == 7
\* of the runs that execute concurrently, those the Generator hands a script
MaxScripts == 1
\* most backticks at the head of a text the formatting fixup is called on
MaxTicks == 4
\* the products of the table the enrichment script reads
MaxProducts == 2
\* the most calls of start_product_processing on one product
MaxStarts == 6

TaskIds == {"A", "B"}

-----------------------------------------------------------------------------
(* Python values *)

None == <<"<None>">>
Unbound == <<"<unbound>">>
RaiseMark == <<"<raise>">>

Truthy(x) == x # None /\ x # <<>>

\* x or y
Or(x, y) == IF Truthy(x) THEN x ELSE y

\* s[:k]: the strings of the model are shorter than every k the code uses
Preview(s) == s

IsPrefix(s, t) == Len(s) <= Len(t) /\ SubSeq(t, 1, Len(s)) = s

TerminalStatuses ==
    {<<"completed">>, <<"failed">>, <<"failed_validation_final_sql_available">>}

DEFAULT_MAX_FIX_ATTEMPTS == 3

\* source_table_name and destination_table_name of the runs
SourceTable == <<"proj.ds.src">>
DestinationTable == <<"proj.ds.dst">>

DEFAULT_CRITICAL_FIELDS ==
    <<"id", "name", "title", "description", "images", "categories", "brands",
      "priceInfo.price", "priceInfo.currencyCode">>

-----------------------------------------------------------------------------
(* task_manager.py.  An operation maps a world [ts, clk] (the dict and the  *)
(* clock) to the world after it.                                           *)

World == [ts |-> task_status, clk |-> clock]

\* add_task_log with a fault: the entry goes to every task's list
add_task_log_to_all(w, task_id, message) ==
    IF task_id \notin DOMAIN w.ts
    THEN w
    ELSE [ts  |-> [k \in DOMAIN w.ts |->
                      [w.ts[k] EXCEPT !.logs =
                          Append(@, [timestamp |-> w.clk + 1, message |-> message])]],
          clk |-> w.clk + 1]

\* add_task_log with a fault: the entry replaces the list instead of joining it
add_task_log_replacing(w, task_id, message) ==
    IF task_id \notin DOMAIN w.ts
    THEN w
    ELSE [ts  |-> [w.ts EXCEPT ![task_id].logs =
                      <<[timestamp |-> w.clk + 1, message |-> message]>>],
          clk |-> w.clk + 1]

add_task_log(w, task_id, message) ==
    IF task_id \notin DOMAIN w.ts
    THEN w
    ELSE [ts  |-> [w.ts EXCEPT ![task_id].logs =
                      Append(@, [timestamp |-> w.clk + 1, message |-> message])],
          clk |-> w.clk + 1]

\* the dict init_task stores
NewTask(w, task_id, task_type, input_details) ==
    [task_id       |-> task_id,
     task_type     |-> task_type,
     status        |-> <<"received">>,
     input_details |-> Or(input_details, <<"{}">>),
     result        |-> None,
     error         |-> None,
     created_at    |-> w.clk + 1,
     updated_at    |-> w.clk + 2,
     logs          |-> <<>>]

InitializedMsg(task_type, input_details) ==
    <<"Task initialized. Type: ">> \o task_type \o <<". Inputs: ">>
        \o Or(input_details, <<"N/A">>)

\* init_task with a fault: a record that exists is kept
init_task_keeping(w, task_id, task_type, input_details) ==
    LET rec == NewTask(w, task_id, task_type, input_details)
        w1  == [ts |-> w.ts @@ (task_id :> rec), clk |-> w.clk + 2]
    IN  add_task_log(w1, task_id, InitializedMsg(task_type, input_details))

init_task(w, task_id, task_type, input_details) ==
    LET rec == NewTask(w, task_id, task_type, input_details)
        w1  == [ts |-> (task_id :> rec) @@ w.ts, clk |-> w.clk + 2]
    IN  add_task_log(w1, task_id, InitializedMsg(task_type, input_details))

\* the error branch with a fault: the error is cleared on a failed status too
StoreErrorClearingOnFailed(w, task_id, status, error) ==
    IF Truthy(error)
    THEN add_task_log([w EXCEPT !.ts[task_id].error = error],
                      task_id, <<"ERROR: ">> \o error)
    ELSE IF w.ts[task_id].error # None
    THEN add_task_log([w EXCEPT !.ts[task_id].error = None],
                      task_id, <<"Previous error condition cleared.">>)
    ELSE w

\* if error: ... else: ... of update_task_status
StoreError(w, task_id, status, error) ==
    IF Truthy(error)
    THEN add_task_log([w EXCEPT !.ts[task_id].error = error],
                      task_id, <<"ERROR: ">> \o error)
    ELSE IF status # <<"failed">> /\ w.ts[task_id].error # None
    THEN add_task_log([w EXCEPT !.ts[task_id].error = None],
                      task_id, <<"Previous error condition cleared.">>)
    ELSE w

\* update_task_status on a task id that is in the store
UpdateStored(w, task_id, status, result, error) ==
    LET w1 == [ts  |-> [w.ts EXCEPT ![task_id].status = status,
                                     ![task_id].updated_at = w.clk + 1],
               clk |-> w.clk + 1]
        w2 == IF result # None
              THEN [w1 EXCEPT !.ts[task_id].result = result]
              ELSE w1
        w3 == StoreError(w2, task_id, status, error)
        log_message == <<"Status changed to: ">> \o status \o <<".">>
                          \o (IF result # None THEN <<" Result updated.">> ELSE <<>>)
    IN  add_task_log(w3, task_id, log_message)

\* update_task_status with a fault: an unknown id is initialized
update_task_status_initializing(w, task_id, status, result, error) ==
    IF task_id \notin DOMAIN w.ts
    THEN init_task(w, task_id, <<"unknown_type_on_update">>, <<"{note}">>)
    ELSE UpdateStored(w, task_id, status, result, error)

update_task_status(w, task_id, status, result, error) ==
    IF task_id \notin DOMAIN w.ts
    THEN w
    ELSE UpdateStored(w, task_id, status, result, error)

\* get_task_status: None (no dict in the caller's hands) for an unknown id,
\* else task_info.copy().  The copy is a new dict with the same values: its
\* "logs" and "input_details" are the list and the dict of the stored record
\* themselves (aliased) until init_task gives the record new ones.
get_task_status(w, task_id) ==
    IF task_id \in DOMAIN w.ts
    THEN <<[task_id |-> task_id, dict |-> w.ts[task_id], aliased |-> TRUE]>>
    ELSE <<>>

-----------------------------------------------------------------------------
(* The task-store calls a stretch of execute_pipeline makes, in order *)

Log(message) == [op |-> "log", a |-> message, b |-> None, c |-> None]

Upd(status, result, error) == [op |-> "upd", a |-> status, b |-> result, c |-> error]

\* the call with a fault: it is made on a task of the store, whichever
StoreCallOnAnyTask(w, task_id, call) ==
    LET any == CHOOSE k \in DOMAIN w.ts \cup {task_id} : k \in DOMAIN w.ts \/ w.ts = <<>>
    IN  IF call.op = "log"
        THEN add_task_log(w, any, call.a)
        ELSE update_task_status(w, any, call.a, call.b, call.c)

StoreCall(w, task_id, call) ==
    IF call.op = "log"
    THEN add_task_log(w, task_id, call.a)
    ELSE update_task_status(w, task_id, call.a, call.b, call.c)

RECURSIVE StoreCalls(_, _, _)
StoreCalls(w, task_id, cs) ==
    IF cs = <<>>
    THEN w
    ELSE StoreCalls(StoreCall(w, task_id, Head(cs)), task_id, Tail(cs))

-----------------------------------------------------------------------------
(* The collaborators of execute_pipeline, by what their code can hand back *)

ExceptionMessages == {<<"boom">>, <<>>}

Returned(x, e) == [raised |-> FALSE, val |-> x, err |-> e]

Raises(e) == [raised |-> TRUE, val |-> None, err |-> e]

\* InitialSQLGenerator.generate: (sql, None), (None, error) or an exception
GeneratorOutcomes ==
    {Returned(g, None) : g \in {<<"SELECT g1">>, <<"SELECT g2">>}}
        \cup {Returned(None, <<"no schema">>)}
        \cup {Raises(e) : e \in ExceptionMessages}

\* one run of the sample query: the client cannot be built, the query fails,
\* it returns no row, or it returns rows
FetchOutcomes ==
    {[kind |-> "client_error", err |-> <<"no credentials">>, rows |-> 0],
     [kind |-> "query_error",  err |-> <<"table not found">>, rows |-> 0],
     [kind |-> "rows",         err |-> None, rows |-> 0],
     [kind |-> "rows",         err |-> None, rows |-> 3]}

\* FieldAnalyzer.identify_defaulted_fields: a list of fields among those to check
AnalyzerOutcomes(fields_to_check) ==
    {Returned(<<>>, None)}
        \cup (IF fields_to_check = <<>>
              THEN {}
              ELSE {Returned(<<Head(fields_to_check)>>, None)})
        \cup {Raises(<<"boom">>)}

\* SemanticEnhancer.enhance_sql: (refined, None), (the input script, error) or
\* an exception
EnhancerOutcomes(current_sql_query) ==
    {Returned(<<"SELECT h">>, None),
     Returned(current_sql_query, <<"No text response received">>),
     Raises(<<"boom">>)}

\* SQLValidator.validate_sql_dry_run: it never raises
validate_sql_dry_run(sql_script) ==
    IF ~Truthy(sql_script)
    THEN {[valid |-> FALSE, message |-> <<"SQL script is empty.">>,
           error_message |-> <<"SQL script is empty.">>]}
    ELSE {[valid |-> TRUE, message |-> <<"SQL syntax validated successfully">>,
           error_message |-> None],
          [valid |-> FALSE, message |-> <<"SQL validation failed.">>,
           error_message |-> <<"Unrecognized name: x">>],
          [valid |-> FALSE,
           message |-> <<"An unexpected error occurred during SQL validation: ">>,
           error_message |-> <<"timed out">>]}

\* SQLFixer.fix_sql as the pipeline guards against it: a script, an error, an
\* empty script, or an exception
FixerOutcomes ==
    {Returned(f, None) : f \in {<<"SELECT f1">>, <<"SELECT f2">>}}
        \cup {Returned(None, <<"model error">>), Returned(<<>>, None)}
        \cup {Raises(e) : e \in ExceptionMessages}

-----------------------------------------------------------------------------
(* execute_pipeline.  A stretch of the method, from one collaborator call   *)
(* to the next, is [cs, pc, loc]: the task-store calls it makes, where the *)
(* run stands after it, and the local variables there.                     *)

K(cs, at, l) == [cs |-> cs, pc |-> at, loc |-> l, made |-> <<>>]

Then(cs, k) == [k EXCEPT !.cs = cs \o @]

Made(cl, k) == [k EXCEPT !.made = cl \o @]

\* a collaborator call of a run: what it was given and what it handed back
Call(op, in1, in2, out1, out2) ==
    [op |-> op, in1 |-> in1, in2 |-> in2, out1 |-> out1, out2 |-> out2]

CallOf(op, in1, in2, o) ==
    Call(op, in1, in2, IF o.raised THEN RaiseMark ELSE o.val, o.err)

\* the handler with a fault: it logs and leaves the status as it was
RaisedWithoutStatus(l, error_str) ==
    K(<<Log(<<"FATAL ERROR in pipeline: ">> \o error_str)>>, "done", l)

\* the handler with a fault: it hands the script to the task store
RaisedWithResult(l, error_str) ==
    K(<<Log(<<"FATAL ERROR in pipeline: ">> \o error_str),
        Upd(<<"failed">>, l.current_sql, error_str)>>,
      "done", l)

\* except Exception as e
Raised(l, error_str) ==
    K(<<Log(<<"FATAL ERROR in pipeline: ">> \o error_str),
            Upd(<<"failed">>, None, error_str)>>,
          "done", l)

MaxAttemptsMsg(max_fix_attempts, error_detail) ==
    <<"Max fix attempts (", ToString(max_fix_attempts),
      ") reached. SQL remains invalid. Last error: ">> \o error_detail

UnboundLocalError ==
    <<"cannot access local variable 'error_detail' where it is not associated with a value">>

\* the code after the for loop
AfterLoop(l, max_fix_attempts) ==
    IF l.error_detail = Unbound
    THEN Raised(l, UnboundLocalError)
    ELSE K(<<Log(<<"ERROR: ">> \o MaxAttemptsMsg(max_fix_attempts, l.error_detail)),
            Upd(<<"failed_validation_final_sql_available">>,
            l.current_sql, l.error_detail)>>,
          "done", l)

\* the loop with a fault: range(max_fix_attempts)
LoopContinuesOneShort(attempt, max_fix_attempts) == attempt < max_fix_attempts

\* for attempt in range(max_fix_attempts + 1)
LoopContinues(attempt, max_fix_attempts) == attempt < max_fix_attempts + 1

\* the status with a fault: the attempts are numbered from 0
ValidatingStatusFromZero(attempt) == <<"validating_sql_attempt_", ToString(attempt)>>

\* f"validating_sql_attempt_{attempt+1}"
ValidatingStatus(attempt) == <<"validating_sql_attempt_", ToString(attempt + 1)>>

LoopHead(l, max_fix_attempts, attempt) ==
    IF LoopContinues(attempt, max_fix_attempts)
    THEN K(<<Upd(ValidatingStatus(attempt), None, None),
            Log(<<"Step 4: ">>
            \o (IF attempt = 0
            THEN <<"Initial Validation">>
            ELSE <<"Validation Attempt ", ToString(attempt + 1)>>)
            \o <<".">>)>>,
          "validate", [l EXCEPT !.attempt = attempt])
    ELSE AfterLoop(l, max_fix_attempts)

\* the valid branch with a fault: the script is not handed to the task store
OnValidWithoutResult(l, validation_result) ==
    K(<<Log(<<"SQL validation successful. ">> \o validation_result.message),
        Upd(<<"completed">>, None, None)>>,
      "done", l)

\* if validation_result["valid"]
OnValid(l, validation_result) ==
    K(<<Log(<<"SQL validation successful. ">> \o validation_result.message),
            Upd(<<"completed">>, l.current_sql, None)>>,
          "done", l)

\* the budget test with a fault: attempt > max_fix_attempts
AttemptsExhaustedOneLate(attempt, max_fix_attempts) == attempt > max_fix_attempts

\* if attempt >= max_fix_attempts
AttemptsExhausted(attempt, max_fix_attempts) == attempt >= max_fix_attempts

OnInvalid(l, max_fix_attempts, validation_result) ==
    LET error_detail == validation_result.error_message
        l1 == [l EXCEPT !.error_detail = error_detail]
    IN  Then(<<Log(<<"SQL validation failed: ">> \o error_detail)>>,
             IF AttemptsExhausted(l.attempt, max_fix_attempts)
             THEN Raised(l1, MaxAttemptsMsg(max_fix_attempts, error_detail))
             ELSE K(<<Upd(<<"fixing_sql_attempt_", ToString(l.attempt + 1)>>,
            None, None),
            Log(<<"Step 5: Attempting SQL fix (Attempt ",
            ToString(l.attempt + 1), "/",
            ToString(max_fix_attempts), "). Error: ">>
            \o Preview(error_detail) \o <<"...">>)>>,
          "fix", l1))

OnValidation(l, max_fix_attempts, validation_result) ==
    IF validation_result.valid
    THEN OnValid(l, validation_result)
    ELSE OnInvalid(l, max_fix_attempts, validation_result)

\* the Fixer test with a fault: if fix_error_msg
FixFailedOnErrorOnly(fixed_sql, fix_error_msg) == Truthy(fix_error_msg)

\* if fix_error_msg or not fixed_sql
FixFailed(fixed_sql, fix_error_msg) == Truthy(fix_error_msg) \/ ~Truthy(fixed_sql)

\* the Fixer branch with a fault: the script the Fixer returned is dropped
OnFixKeepingScript(l, max_fix_attempts, f) ==
    IF f.raised
    THEN Raised(l, f.err)
    ELSE IF FixFailed(f.val, f.err)
    THEN Raised(l, <<"SQL fixing attempt ", ToString(l.attempt + 1), " failed: ">>
                     \o Or(f.err, <<"No SQL returned by fixer">>))
    ELSE Then(<<Log(<<"SQL fix attempt ", ToString(l.attempt + 1),
                      " applied (preview: ">> \o Preview(f.val) \o <<"...).">>)>>,
              LoopHead(l, max_fix_attempts, l.attempt + 1))

OnFix(l, max_fix_attempts, f) ==
    IF f.raised
    THEN Raised(l, f.err)
    ELSE IF FixFailed(f.val, f.err)
    THEN Raised(l, <<"SQL fixing attempt ", ToString(l.attempt + 1), " failed: ">>
                     \o Or(f.err, <<"No SQL returned by fixer">>))
    ELSE Then(<<Log(<<"SQL fix attempt ", ToString(l.attempt + 1),
                      " applied (preview: ">> \o Preview(f.val) \o <<"...).">>)>>,
              LoopHead([l EXCEPT !.current_sql = f.val],
                       max_fix_attempts, l.attempt + 1))

OnEnhance(l, max_fix_attempts, e) ==
    IF e.raised
    THEN Raised(l, e.err)
    ELSE LET l1 == [l EXCEPT !.current_sql = e.val]
         IN  Then(<<IF Truthy(e.err)
                    THEN Log(<<"WARNING: Semantic enhancement issue: ">> \o e.err
                               \o <<". Continuing with previous SQL.">>)
                    ELSE Log(<<"Semantic enhancement applied (preview: ">>
                               \o Preview(l1.current_sql) \o <<"...).">>)>>,
                  LoopHead(l1, max_fix_attempts, 0))

FieldsToCheck(critical_fields_for_semantic_refinement) ==
    IF critical_fields_for_semantic_refinement # None
    THEN critical_fields_for_semantic_refinement
    ELSE DEFAULT_CRITICAL_FIELDS

\* the test with a fault: the Enhancer is called whatever the list holds
HasDefaultedAlways(defaulted_critical_fields) == TRUE

\* if defaulted_critical_fields
HasDefaulted(defaulted_critical_fields) == Truthy(defaulted_critical_fields)

\* Steps 2 and 3 up to the Enhancer call; d is what the Field Analyzer hands back
Semantic(l, a, d) ==
    IF Truthy(l.fetched_sample_json_for_enhancement)
    THEN Then(<<Upd(<<"analyzing_for_semantic_enhancement">>, None, None),
                Log(<<"Step 2: Identifying fields for semantic refinement.">>)>>,
           Made(<<CallOf("identify_defaulted_fields", l.current_sql,
                         FieldsToCheck(a.critical_fields_for_semantic_refinement), d)>>,
           IF d.raised
           THEN Raised(l, d.err)
           ELSE LET l1 == [l EXCEPT !.defaulted_critical_fields = d.val]
                IN  Then(<<Log(<<"Defaulted critical fields found: ">>
                                 \o Or(d.val, <<"None">>) \o <<".">>)>>,
                      IF HasDefaulted(d.val)
                      THEN K(<<Upd(<<"performing_semantic_enhancement">>, None, None),
            Log(<<"Step 3: Performing semantic enhancement for: ">>
            \o d.val \o <<".">>)>>,
          "enhance", l1)
                      ELSE Then(<<Log(<<"Skipping semantic enhancement: No critical fields identified as needing refinement.">>)>>,
                                LoopHead(l1, a.max_fix_attempts, 0)))))
    ELSE Then(<<Log(<<"Skipping semantic enhancement: No source data sample could be provided or fetched.">>)>>,
              LoopHead(l, a.max_fix_attempts, 0))

\* the sample query with a fault: no try/except of its own
OnFetchErrorPropagating(l, a, bq_err, d) == Raised(l, bq_err)

\* except Exception as bq_err
OnFetchError(l, a, bq_err, d) ==
    Then(<<Log(<<"WARNING: Failed to fetch source data sample: ">> \o bq_err)>>,
         Semantic(l, a, d))

\* the try/except around the sample query
OnFetch(l, a, r, d) ==
    LET sample_query == <<"SELECT * FROM ">> \o SourceTable \o <<" LIMIT 3">>
        fetching == Log(<<"Fetching source data sample with query: ">> \o sample_query)
    IN  IF r.kind = "client_error"
        THEN OnFetchError(l, a, r.err, d)
        ELSE IF r.kind = "query_error"
        THEN Then(<<fetching>>, OnFetchError(l, a, r.err, d))
        ELSE IF r.rows > 0
        THEN Then(<<fetching,
                    Log(<<"Successfully fetched ", ToString(r.rows),
                          " sample rows from source table.">>)>>,
                  Semantic([l EXCEPT !.fetched_sample_json_for_enhancement =
                                        <<"[rows]">>], a, d))
        ELSE Then(<<fetching,
                    Log(<<"No rows returned from source data sample query. Semantic enhancement might be skipped or limited.">>)>>,
                  Semantic(l, a, d))

\* the Generator test with a fault: if current_sql == ""
GenFailedOnEmptyOnly(current_sql) == current_sql = <<>>

\* if not current_sql
GenFailed(current_sql) == ~Truthy(current_sql)

OnGenerate(l, a, g, d) ==
    IF g.raised
    THEN Raised(l, g.err)
    ELSE LET l1 == [l EXCEPT !.current_sql = g.val]
         IN  IF GenFailed(g.val)
             THEN Raised(l1, <<"Initial SQL generation failed: ">>
                               \o Or(g.err, <<"No SQL returned">>))
             ELSE LET l2 == [l1 EXCEPT !.fetched_sample_json_for_enhancement =
                                          a.source_data_sample_json]
                  IN  Then(<<Log(<<"Initial SQL generated (preview: ">>
                                   \o Preview(g.val) \o <<"...).">>)>>,
                        IF ~Truthy(l2.fetched_sample_json_for_enhancement)
                        THEN K(<<Log(<<"Source data sample not provided by caller, attempting to fetch from BigQuery.">>)>>,
          "fetch", l2)
                        ELSE Semantic(l2, a, d))

\* the method up to the Generator call with a fault: the missing-schema
\* branch has no return
OnStartWithoutReturn(l, a) ==
    Then(<<Log(<<"SQL Transformation Pipeline started for ">> \o SourceTable
                 \o <<" to ">> \o DestinationTable \o <<".">>),
           Upd(<<"pipeline_started">>, None, None)>>,
      Then(IF ~Truthy(Or(a.destination_schema, a.default_destination_schema))
           THEN LET msg == <<"No destination schema available.">>
                IN  <<Log(<<"ERROR: ">> \o msg), Upd(<<"failed">>, None, msg)>>
           ELSE <<>>,
           K(<<Upd(<<"generating_initial_sql">>, None, None),
               Log(<<"Step 1: Generating initial SQL.">>)>>,
             "generate", l)))

\* the method up to the Generator call with a fault: the missing-schema
\* branch gives the task store no error
OnStartWithoutError(l, a) ==
    Then(<<Log(<<"SQL Transformation Pipeline started for ">> \o SourceTable
                 \o <<" to ">> \o DestinationTable \o <<".">>),
           Upd(<<"pipeline_started">>, None, None)>>,
         IF ~Truthy(Or(a.destination_schema, a.default_destination_schema))
         THEN LET msg == <<"No destination schema available.">>
              IN  K(<<Log(<<"ERROR: ">> \o msg), Upd(<<"failed">>, None, None)>>,
          "done", l)
         ELSE K(<<Upd(<<"generating_initial_sql">>, None, None),
            Log(<<"Step 1: Generating initial SQL.">>)>>,
          "generate", l))

\* the method up to the Generator call
OnStart(l, a) ==
    Then(<<Log(<<"SQL Transformation Pipeline started for ">> \o SourceTable
                 \o <<" to ">> \o DestinationTable \o <<".">>),
           Upd(<<"pipeline_started">>, None, None)>>,
         IF ~Truthy(Or(a.destination_schema, a.default_destination_schema))
         THEN LET msg == <<"No destination schema available.">>
              IN  K(<<Log(<<"ERROR: ">> \o msg), Upd(<<"failed">>, None, msg)>>,
          "done", l)
         ELSE K(<<Upd(<<"generating_initial_sql">>, None, None),
            Log(<<"Step 1: Generating initial SQL.">>)>>,
          "generate", l))

-----------------------------------------------------------------------------
(* The runs *)

FixAttemptChoices == ((-1)..MaxFixAttempts) \cup {DEFAULT_MAX_FIX_ATTEMPTS}

\* the arguments a caller may pass to execute_pipeline, and the default schema
\* the pipeline object loaded when it was built
ArgChoices ==
    [destination_schema                      : {None, <<"schema">>},
     default_destination_schema              : {None, <<"default schema">>},
     source_data_sample_json                 : {None, <<"[rows]">>},
     critical_fields_for_semantic_refinement : {None, <<>>},
     max_fix_attempts                        : FixAttemptChoices]

NoArgs ==
    [destination_schema                      |-> None,
     default_destination_schema              |-> None,
     source_data_sample_json                 |-> None,
     critical_fields_for_semantic_refinement |-> None,
     max_fix_attempts                        |-> DEFAULT_MAX_FIX_ATTEMPTS]

\* current_sql: Optional[str] = None; the other locals are not bound yet
NoLocals ==
    [current_sql                        |-> None,
     fetched_sample_json_for_enhancement |-> None,
     defaulted_critical_fields          |-> <<>>,
     attempt                            |-> 0,
     error_detail                       |-> Unbound]

NoOp == [op |-> "none", task_id |-> "A", args |-> <<>>]

\* no function of the SQL services was called yet
NoCall == [fn |-> "none", in |-> <<>>, out |-> <<>>]

\* the collection is empty and process_products is not running
NoFirestore ==
    [docs              |-> [p \in 1..MaxProducts |->
                              [exists |-> FALSE, status |-> "none", retry_count |-> 0]],
     last_processed_id |-> 0,
     at                |-> "idle",
     last_id           |-> 0,
     todo              |-> <<>>,
     product_id        |-> 0,
     starts            |-> [p \in 1..MaxProducts |-> 0],
     restarted         |-> FALSE]

\* the run leaves its stretch k behind, having made the collaborator calls cl
Commit(t, k, cl) ==
    LET w == StoreCalls(World, t, k.cs)
    IN  /\ task_status' = w.ts
        /\ clock' = w.clk
        /\ pc' = [pc EXCEPT ![t] = k.pc]
        /\ loc' = [loc EXCEPT ![t] = k.loc]
        /\ calls' = [calls EXCEPT ![t] = @ \o cl \o k.made]
        /\ UNCHANGED <<lastOp, args, held, stores, io, firestore>>

\* a caller creates the task (init_task) and hands execute_pipeline its arguments
StartRunWith(t, a) ==
    /\ pc[t] = "idle"
    /\ LET w == init_task(World, t, <<"sql_generation">>, <<"{inputs}">>)
       IN  /\ task_status' = w.ts
           /\ clock' = w.clk
           /\ args' = [args EXCEPT ![t] = a]
    /\ pc' = [pc EXCEPT ![t] = "start"]
    /\ loc' = [loc EXCEPT ![t] = NoLocals]
    /\ UNCHANGED <<lastOp, calls, held, stores, io, firestore>>

StartRun(t) == \E a \in ArgChoices : StartRunWith(t, a)

Start(t) ==
    /\ pc[t] = "start"
    /\ Commit(t, OnStart(loc[t], args[t]), <<>>)

Generate(t) ==
    /\ pc[t] = "generate"
    /\ \E g \in GeneratorOutcomes :
       \E d \in AnalyzerOutcomes(FieldsToCheck(args[t].critical_fields_for_semantic_refinement)) :
         Commit(t, OnGenerate(loc[t], args[t], g, d),
                <<CallOf("generate", SourceTable, DestinationTable, g)>>)

Fetch(t) ==
    /\ pc[t] = "fetch"
    /\ \E r \in FetchOutcomes :
       \E d \in AnalyzerOutcomes(FieldsToCheck(args[t].critical_fields_for_semantic_refinement)) :
         Commit(t, OnFetch(loc[t], args[t], r, d),
                <<Call("fetch", SourceTable, None,
                       IF r.kind = "rows" THEN <<ToString(r.rows)>> ELSE RaiseMark,
                       r.err)>>)

Enhance(t) ==
    /\ pc[t] = "enhance"
    /\ \E e \in EnhancerOutcomes(loc[t].current_sql) :
         Commit(t, OnEnhance(loc[t], args[t].max_fix_attempts, e),
                <<CallOf("enhance_sql", loc[t].current_sql,
                         loc[t].defaulted_critical_fields, e)>>)

Validate(t) ==
    /\ pc[t] = "validate"
    /\ \E v \in validate_sql_dry_run(loc[t].current_sql) :
         Commit(t, OnValidation(loc[t], args[t].max_fix_attempts, v),
                <<Call("validate_sql_dry_run", loc[t].current_sql, None,
                       IF v.valid THEN <<"valid">> ELSE <<"invalid">>,
                       v.error_message)>>)

Fix(t) ==
    /\ pc[t] = "fix"
    /\ \E f \in FixerOutcomes :
         Commit(t, OnFix(loc[t], args[t].max_fix_attempts, f),
                <<CallOf("fix_sql", loc[t].current_sql, loc[t].error_detail, f)>>)

Init ==
    /\ task_status = <<>>
    /\ clock = 0
    /\ lastOp = NoOp
    /\ pc = [t \in TaskIds |-> IF t = "A" THEN "idle" ELSE "off"]
    /\ args = [t \in TaskIds |-> NoArgs]
    /\ loc = [t \in TaskIds |-> NoLocals]
    /\ calls = [t \in TaskIds |-> <<>>]
    /\ held = [at |-> "start", ret |-> <<>>]
    /\ stores = [t \in TaskIds |-> [made |-> <<>>, todo |-> <<>>]]
    /\ io = NoCall
    /\ firestore = NoFirestore

Next ==
    \E t \in TaskIds :
        \/ StartRun(t)
        \/ Start(t)
        \/ Generate(t)
        \/ Fetch(t)
        \/ Enhance(t)
        \/ Validate(t)
        \/ Fix(t)

Spec == Init /\ [][Next]_vars

-----------------------------------------------------------------------------
(* The task store on its own: clients invoke its operations in any order,   *)
(* on ids that exist and on ids that do not.                               *)

ClientStatuses == {<<"processing">>, <<"completed">>, <<"failed">>}
ClientResults == {None, <<"SELECT r">>}
ClientErrors == {None, <<>>, <<"oops">>}
ClientMessages == {<<"note">>}
ClientInputs == {None, <<"{inputs}">>}

\* what a dict in a client's hands shows once the store is ts: init_task on its
\* id leaves it with the list and the dict of the record that was replaced;
\* while it is aliased, it shows what the store did to them
HeldAfter(h, op, t, ts) ==
    IF h = <<>>
    THEN h
    ELSE IF op = "init_task" /\ h[1].task_id = t
    THEN <<[h[1] EXCEPT !.aliased = FALSE]>>
    ELSE IF h[1].aliased
    THEN <<[h[1] EXCEPT !.dict.logs = ts[h[1].task_id].logs]>>
    ELSE h

ClientOp(w, op, t, as) ==
    /\ clock < MaxClock
    /\ task_status' = w.ts
    /\ clock' = w.clk
    /\ lastOp' = [op |-> op, task_id |-> t, args |-> as]
    /\ held' = [held EXCEPT !.ret = HeldAfter(@, op, t, w.ts)]
    /\ UNCHANGED <<pc, args, loc, calls, stores, io, firestore>>

ClientInitTask(t) ==
    \E d \in ClientInputs :
        ClientOp(init_task(World, t, <<"sql_generation">>, d), "init_task", t,
                 <<<<"sql_generation">>, d>>)

ClientUpdateTaskStatus(t) ==
    \E st \in ClientStatuses, r \in ClientResults, e \in ClientErrors :
        ClientOp(update_task_status(World, t, st, r, e), "update_task_status", t,
                 <<st, r, e>>)

ClientAddTaskLog(t) ==
    \E m \in ClientMessages :
        ClientOp(add_task_log(World, t, m), "add_task_log", t, <<m>>)

StoreNext ==
    \E t \in TaskIds :
        \/ ClientInitTask(t)
        \/ ClientUpdateTaskStatus(t)
        \/ ClientAddTaskLog(t)

StoreSpec == Init /\ [][StoreNext]_vars

-----------------------------------------------------------------------------
(* The task store and a client that reads it: get_task_status hands the     *)
(* client a dict, and the client changes that dict.                        *)

ClientGetTaskStatus(t) ==
    /\ held.at = "start"
    /\ held' = [at |-> "got", ret |-> get_task_status(World, t)]
    /\ lastOp' = [op |-> "get_task_status", task_id |-> t, args |-> <<>>]
    /\ UNCHANGED <<task_status, clock, pc, args, loc, calls, stores, io, firestore>>

\* the client changes the dict in its hands: it shows h afterwards, and the
\* store is ts
ClientEdit(kind, ts, h) ==
    /\ held.at = "got"
    /\ task_status' = ts
    /\ held' = [at |-> "edited", ret |-> <<h>>]
    /\ lastOp' = [op |-> kind, task_id |-> h.task_id, args |-> <<>>]
    /\ UNCHANGED <<clock, pc, args, loc, calls, stores, io, firestore>>

\* d["status"] = "edited": the key of the client's dict is bound anew
ClientSetsField ==
    /\ held.ret # <<>>
    /\ ClientEdit("set_field", task_status,
                  [held.ret[1] EXCEPT !.dict.status = <<"edited">>])

\* d["logs"].append(entry): the list object is changed, whoever else holds it
ClientAppendsLog ==
    /\ held.ret # <<>>
    /\ LET t == held.ret[1].task_id
           entry == [timestamp |-> 0, message |-> <<"edited">>]
       IN  ClientEdit("append_log",
                      IF held.ret[1].aliased
                      THEN [task_status EXCEPT ![t].logs = Append(@, entry)]
                      ELSE task_status,
                      [held.ret[1] EXCEPT !.dict.logs = Append(@, entry)])

\* d["input_details"]["note"] = "edited": the dict object is changed likewise
ClientSetsInputDetail ==
    /\ held.ret # <<>>
    /\ LET t == held.ret[1].task_id
       IN  ClientEdit("set_input_detail",
                      IF held.ret[1].aliased
                      THEN [task_status EXCEPT ![t].input_details = @ \o <<"edited">>]
                      ELSE task_status,
                      [held.ret[1] EXCEPT !.dict.input_details = @ \o <<"edited">>])

ReaderNext ==
    \/ \E t \in TaskIds :
        /\ clock < MaxReaderClock
        /\ \/ ClientInitTask(t)
           \/ ClientUpdateTaskStatus(t)
           \/ ClientAddTaskLog(t)
    \/ \E t \in TaskIds : ClientGetTaskStatus(t)
    \/ ClientSetsField
    \/ ClientAppendsLog
    \/ ClientSetsInputDetail

ReaderSpec == Init /\ [][ReaderNext]_vars

-----------------------------------------------------------------------------
(* Runs with distinct task ids, each in a thread of its own (main.py hands  *)
(* execute_pipeline to BackgroundTasks).  A step of a run is one           *)
(* task-store call, with the computation local to the thread that leads to *)
(* it: the calls of a stretch are made one at a time, any other run's      *)
(* calls in between.                                                       *)

\* the arguments generate_sql_task passes, with no sample and no repair budget
ConcurrentArgChoices ==
    {a \in ArgChoices : /\ a.destination_schema = <<"schema">>
                        /\ a.default_destination_schema = <<"default schema">>
                        /\ a.source_data_sample_json = None
                        /\ a.critical_fields_for_semantic_refinement = None
                        /\ a.max_fix_attempts = 0}

\* the runs the Generator has handed a script
Scripted ==
    {u \in TaskIds : \E i \in 1..Len(calls[u]) :
                        /\ calls[u][i].op = "generate"
                        /\ calls[u][i].out1 # RaiseMark
                        /\ Truthy(calls[u][i].out1)}

\* the run enters its stretch k: it makes the first task-store call of k and
\* has the others yet to make
Enqueue(t, k, cl) ==
    /\ stores[t].todo = <<>>
    /\ LET w == StoreCall(World, t, Head(k.cs))
       IN  /\ task_status' = w.ts
           /\ clock' = w.clk
    /\ stores' = [stores EXCEPT ![t].todo = Tail(k.cs),
                                ![t].made = Append(@, Head(k.cs))]
    /\ pc' = [pc EXCEPT ![t] = k.pc]
    /\ loc' = [loc EXCEPT ![t] = k.loc]
    /\ calls' = [calls EXCEPT ![t] = @ \o cl \o k.made]
    /\ UNCHANGED <<lastOp, args, held, io, firestore>>

\* the run makes the next task-store call of its stretch
MakeStoreCall(t) ==
    /\ stores[t].todo # <<>>
    /\ LET w == StoreCall(World, t, Head(stores[t].todo))
       IN  /\ task_status' = w.ts
           /\ clock' = w.clk
    /\ stores' = [stores EXCEPT ![t].todo = Tail(@),
                                ![t].made = Append(@, Head(stores[t].todo))]
    /\ UNCHANGED <<lastOp, pc, args, loc, calls, held, io, firestore>>

ConcurrentStartRun(t) == \E a \in ConcurrentArgChoices : StartRunWith(t, a)

ConcurrentStart(t) ==
    /\ pc[t] = "start"
    /\ Enqueue(t, OnStart(loc[t], args[t]), <<>>)

ConcurrentGenerate(t) ==
    /\ pc[t] = "generate"
    /\ \E g \in {Returned(<<"SELECT g1">>, None), Returned(None, <<"no schema">>)} :
         /\ g \in GeneratorOutcomes
         /\ Truthy(g.val) => Cardinality(Scripted \ {t}) < MaxScripts
         /\ Enqueue(t, OnGenerate(loc[t], args[t], g, Returned(<<>>, None)),
                    <<CallOf("generate", SourceTable, DestinationTable, g)>>)

ConcurrentFetch(t) ==
    /\ pc[t] = "fetch"
    /\ \E r \in {o \in FetchOutcomes : o.kind = "client_error"} :
         Enqueue(t, OnFetch(loc[t], args[t], r, Returned(<<>>, None)),
                 <<Call("fetch", SourceTable, None, RaiseMark, r.err)>>)

ConcurrentValidate(t) ==
    /\ pc[t] = "validate"
    /\ \E v \in {o \in validate_sql_dry_run(loc[t].current_sql) : o.valid} :
         Enqueue(t, OnValidation(loc[t], args[t].max_fix_attempts, v),
                 <<Call("validate_sql_dry_run", loc[t].current_sql, None,
                        IF v.valid THEN <<"valid">> ELSE <<"invalid">>,
                        v.error_message)>>)

ConcurrentInit ==
    /\ task_status = <<>>
    /\ clock = 0
    /\ lastOp = NoOp
    /\ pc = [t \in TaskIds |-> "idle"]
    /\ args = [t \in TaskIds |-> NoArgs]
    /\ loc = [t \in TaskIds |-> NoLocals]
    /\ calls = [t \in TaskIds |-> <<>>]
    /\ held = [at |-> "start", ret |-> <<>>]
    /\ stores = [t \in TaskIds |-> [made |-> <<>>, todo |-> <<>>]]
    /\ io = NoCall
    /\ firestore = NoFirestore

ConcurrentNext ==
    \E t \in TaskIds :
        \/ ConcurrentStartRun(t)
        \/ ConcurrentStart(t)
        \/ ConcurrentGenerate(t)
        \/ ConcurrentFetch(t)
        \/ ConcurrentValidate(t)
        \/ MakeStoreCall(t)

ConcurrentSpec == ConcurrentInit /\ [][ConcurrentNext]_vars

-----------------------------------------------------------------------------
(* The texts of the SQL services.  A text is a sequence of tokens: a word   *)
(* (a keyword, a name, a digit), a whitespace character, a backtick or a    *)
(* punctuation mark.  The code looks at texts through str.upper, str.lower, *)
(* str.strip, str.startswith, slices and regular expressions; each is      *)
(* modelled by what it does to the tokens.                                 *)

Whitespace == {" ", "\n"}

\* the backtick character
Tick == "<backtick>"

\* str.upper on a token
UpperOf ==
    ("create" :> "CREATE") @@ ("or" :> "OR") @@ ("replace" :> "REPLACE")
        @@ ("table" :> "TABLE") @@ ("as" :> "AS") @@ ("select" :> "SELECT")
        @@ ("Select" :> "SELECT") @@ ("with" :> "WITH") @@ ("null" :> "NULL")
        @@ ("false" :> "FALSE") @@ ("from" :> "FROM") @@ ("sql" :> "SQL")
        @@ ("name" :> "NAME") @@ ("id" :> "ID") @@ ("source" :> "SOURCE")
        @@ ("t" :> "T") @@ ("Sorry" :> "SORRY") @@ ("struct" :> "STRUCT")
        @@ ("Name" :> "NAME")

\* str.lower on a token
LowerOf ==
    ("CREATE" :> "create") @@ ("OR" :> "or") @@ ("REPLACE" :> "replace")
        @@ ("TABLE" :> "table") @@ ("AS" :> "as") @@ ("SELECT" :> "select")
        @@ ("Select" :> "select") @@ ("WITH" :> "with") @@ ("NULL" :> "null")
        @@ ("FALSE" :> "false") @@ ("FROM" :> "from") @@ ("SQL" :> "sql")
        @@ ("NAME" :> "name") @@ ("ID" :> "id") @@ ("SOURCE" :> "source")
        @@ ("T" :> "t") @@ ("Sorry" :> "sorry") @@ ("STRUCT" :> "struct")
        @@ ("priceInfo" :> "priceinfo") @@ ("Name" :> "name")
        @@ ("currencyCode" :> "currencycode")

\* the tokens that are no words: whitespace, the backtick, punctuation and
\* literals made of punctuation; the empty string stands for no token
NonWordTokens == Whitespace \cup {Tick, ",", ".", "(", ")", "[]", "''", "{}", "\"\"", ""}

\* the token is made of word characters, \w+
IsWord(c) == c \notin NonWordTokens

\* the token is made of letters, [a-zA-Z]+
IsLetters(c) == IsWord(c) /\ c # "0"

UpperTok(c) == IF c \in DOMAIN UpperOf THEN UpperOf[c] ELSE c

LowerTok(c) == IF c \in DOMAIN LowerOf THEN LowerOf[c] ELSE c

upper(s) == [i \in 1..Len(s) |-> UpperTok(s[i])]

lower(s) == [i \in 1..Len(s) |-> LowerTok(s[i])]

startswith(s, prefix) == IsPrefix(prefix, s)

endswith(s, suffix) ==
    Len(suffix) <= Len(s) /\ SubSeq(s, Len(s) - Len(suffix) + 1, Len(s)) = suffix

RECURSIVE lstrip(_)
lstrip(s) == IF s # <<>> /\ Head(s) \in Whitespace THEN lstrip(Tail(s)) ELSE s

RECURSIVE rstrip(_)
rstrip(s) ==
    IF s # <<>> /\ s[Len(s)] \in Whitespace THEN rstrip(SubSeq(s, 1, Len(s) - 1)) ELSE s

strip(s) == rstrip(lstrip(s))

\* the token at index i, or no token
At(s, i) == IF i >= 1 /\ i <= Len(s) THEN s[i] ELSE ""

\* the least member of a set of indices, 0 of the empty set
Leftmost(S) == IF S = {} THEN 0 ELSE CHOOSE x \in S : \A y \in S : x <= y

\* \s*: the index of the first token at or after i that is no whitespace
RECURSIVE SkipWs(_, _)
SkipWs(s, i) == IF At(s, i) \in Whitespace THEN SkipWs(s, i + 1) ELSE i

\* a word matched at i whatever its case: the index after it, 0 for no match
AfterWord(s, i, w) == IF UpperTok(At(s, i)) = w THEN i + 1 ELSE 0

\* \s+ matched at i: the index after it, 0 for no match
AfterGap(s, i) == IF At(s, i) \in Whitespace THEN SkipWs(s, i) ELSE 0

\* CREATE\s+OR\s+REPLACE\s+TABLE matched at i: the index after it, or 0
CreateTableEnd(s, i) ==
    LET a == AfterGap(s, AfterWord(s, i, "CREATE"))
        b == AfterGap(s, AfterWord(s, a, "OR"))
        c == AfterGap(s, AfterWord(s, b, "REPLACE"))
    IN  AfterWord(s, c, "TABLE")

\* the index of the first backtick at or after i, or 0
NextTick(s, i) == Leftmost({k \in i..Len(s) : s[k] = Tick})

\* CREATE\s+OR\s+REPLACE\s+TABLE\s*`([^`]+)`\s*AS matched at i: the indices
\* of the two backticks and of AS, or 0 for no match
NameOpen(s, i) ==
    LET Open(e) == IF e # 0 /\ At(s, SkipWs(s, e)) = Tick THEN SkipWs(s, e) ELSE 0
    IN  Open(CreateTableEnd(s, i))

NameClose(s, i) ==
    LET Close(j, k) == IF j # 0 /\ k > j + 1 THEN k ELSE 0
        After(j) == Close(j, NextTick(s, j + 1))
    IN  After(NameOpen(s, i))

NameAs(s, i) ==
    LET As(k) == IF k # 0 /\ UpperTok(At(s, SkipWs(s, k + 1))) = "AS"
                 THEN SkipWs(s, k + 1)
                 ELSE 0
    IN  As(NameClose(s, i))

\* the first re.sub: the statement head is rewritten with single spaces
NormalizeHead(s) ==
    LET Sub(i) ==
            IF i = 0
            THEN s
            ELSE SubSeq(s, 1, i - 1)
                    \o <<"CREATE", " ", "OR", " ", "REPLACE", " ", "TABLE", " ", Tick>>
                    \o SubSeq(s, NameOpen(s, i) + 1, NameClose(s, i) - 1)
                    \o <<Tick, " ", "AS">>
                    \o SubSeq(s, NameAs(s, i) + 1, Len(s))
    IN  Sub(Leftmost({k \in 1..Len(s) : NameAs(s, k) # 0}))

\* the second re.sub: (CREATE\s+OR\s+REPLACE\s+TABLE)\s+(?=`) keeps the group
\* and puts one space after it
SpaceAfterTable(s) ==
    LET Gap(e) == IF e # 0 /\ At(s, AfterGap(s, e)) = Tick THEN AfterGap(s, e) ELSE 0
        Sub(i) ==
            IF i = 0
            THEN s
            ELSE SubSeq(s, 1, CreateTableEnd(s, i) - 1) \o <<" ">>
                    \o SubSeq(s, Gap(CreateTableEnd(s, i)), Len(s))
    IN  Sub(Leftmost({k \in 1..Len(s) : Gap(CreateTableEnd(s, k)) # 0}))

\* the third re.sub: (?<=`)\s+(AS\s+SELECT) keeps the group and puts one
\* space before it
SpaceBeforeAs(s) ==
    LET Select(k) == AfterGap(s, AfterWord(s, AfterGap(s, k), "AS"))
        Hit(k) == /\ At(s, k - 1) = Tick
                  /\ AfterWord(s, Select(k), "SELECT") # 0
        Sub(i) ==
            IF i = 0
            THEN s
            ELSE SubSeq(s, 1, i - 1) \o <<" ">> \o SubSeq(s, AfterGap(s, i), Len(s))
    IN  Sub(Leftmost({k \in 2..Len(s) : Hit(k)}))

\* if sql_query.startswith("``") ... elif sql_query.startswith(Tick) and not
\* sql_query.startswith("```") ...
StripLeadingTicks(s) ==
    IF startswith(s, <<Tick, Tick>>)
    THEN SubSeq(s, 3, Len(s))
    ELSE IF startswith(s, <<Tick>>) /\ ~startswith(s, <<Tick, Tick, Tick>>)
    THEN SubSeq(s, 2, Len(s))
    ELSE s

\* _apply_programmatic_fixes, the same code in the Generator, the Enhancer
\* and the Fixer
ApplyProgrammaticFixes(sql_query) ==
    IF ~Truthy(sql_query)
    THEN <<>>
    ELSE StripLeadingTicks(SpaceBeforeAs(SpaceAfterTable(NormalizeHead(sql_query))))

-----------------------------------------------------------------------------
(* client_utils.py: what GenAIClient hands the SQL services *)

\* [a-zA-Z]*: the index of the first token at or after i that is no letters
RECURSIVE SkipLetters(_, _)
SkipLetters(s, i) == IF IsLetters(At(s, i)) THEN SkipLetters(s, i + 1) ELSE i

Fence == <<Tick, Tick, Tick>>

\* ^```(?:[a-zA-Z]+)?\s*\n(.*?)\n```$ on the stripped text: the index of the
\* newline that ends the opening fence, 0 for no match.  The closing fence
\* is the last four characters; the opening newline is the last one of the
\* whitespace after the language word that leaves the closing newline free.
FenceNewline(s) ==
    LET a  == SkipLetters(s, 4)
        b  == SkipWs(s, a)
        nl == {k \in a..(b - 1) : s[k] = "\n" /\ k < Len(s) - 3}
    IN  IF /\ startswith(s, Fence)
           /\ endswith(s, <<"\n">> \o Fence)
           /\ nl # {}
        THEN CHOOSE k \in nl : \A j \in nl : j <= k
        ELSE 0

LanguageIdentifiers == {<<"sql">>, <<"googlesql">>, <<"bigquery">>}

\* the fallback for ```SQL_QUERY``` and ```lang SQL_QUERY```
Unfenced(s) ==
    LET temp_query == strip(SubSeq(s, 4, Len(s) - 3))
        word       == SkipLetters(temp_query, 1) - 1
    IN  IF /\ word >= 1
           /\ At(temp_query, word + 1) \in Whitespace
           /\ lower(SubSeq(temp_query, 1, word)) \in LanguageIdentifiers
        THEN lstrip(SubSeq(temp_query, word + 1, Len(temp_query)))
        ELSE temp_query

CreateOrReplaceTable == <<"CREATE", " ", "OR", " ", "REPLACE", " ", "TABLE">>

\* the statement heads extract_sql_from_text lets through
ExtractableHeads ==
    {CreateOrReplaceTable, <<"SELECT">>, <<"INSERT">>, <<"UPDATE">>, <<"DELETE">>,
     <<"WITH">>}

\* GenAIClient.extract_sql_from_text
extract_sql_from_text(text_content) ==
    IF ~Truthy(text_content)
    THEN None
    ELSE LET stripped_content == strip(text_content)
             sql_query ==
                 IF FenceNewline(stripped_content) # 0
                 THEN strip(SubSeq(stripped_content,
                                   FenceNewline(stripped_content) + 1,
                                   Len(stripped_content) - 4))
                 ELSE IF /\ startswith(stripped_content, Fence)
                         /\ endswith(stripped_content, Fence)
                 THEN Unfenced(stripped_content)
                 ELSE stripped_content
         IN  IF \E head \in ExtractableHeads : startswith(upper(sql_query), head)
             THEN sql_query
             ELSE None

\* A dict of function-call arguments: whether it is None, whether the
\* arguments lie under the tool's name, and the value of each key of the
\* arguments, Missing for a key that is not there.
Missing == <<"<missing>">>

Dict(under_tool, fixed_sql, reasoning) ==
    [is_none |-> FALSE, under_tool |-> under_tool, fixed_sql |-> fixed_sql,
     reasoning |-> reasoning]

NoDict == [is_none |-> TRUE, under_tool |-> FALSE, fixed_sql |-> Missing,
           reasoning |-> Missing]

\* a FunctionCall object, and the None in its place
FunctionCall(name, fargs) == [name |-> name, args |-> fargs]

NoFunctionCall == FunctionCall(None, NoDict)

\* key in d
HasKey(d, key) == ~d.is_none /\ d[key] # Missing

\* GenAIClient.parse_function_call_args: the arguments of a function call as
\* a dict, the dict under the tool's name when there is one, None when there
\* is no call, no arguments or an empty dict
parse_function_call_args(function_call, expected_tool_name) ==
    IF function_call = NoFunctionCall
    THEN NoDict
    ELSE IF function_call.args.is_none
    THEN NoDict
    ELSE LET raw_args == function_call.args
             parsed_args == [raw_args EXCEPT !.under_tool = FALSE]
         IN  IF ~HasKey(parsed_args, "fixed_sql") /\ ~HasKey(parsed_args, "reasoning")
             THEN NoDict
             ELSE parsed_args

\* what generate_content returns: the text, the function call, the error
\* message and the finish reason
Response(text, call, error, finish) ==
    [text |-> text, call |-> call, error |-> error, finish |-> finish]

\* finish_reason.name if finish_reason else 'UNKNOWN'
FinishName(finish_reason) == IF finish_reason # None THEN finish_reason ELSE <<"UNKNOWN">>

-----------------------------------------------------------------------------
(* field_analyzer.py *)

\* the default literals the Field Analyzer looks for
DefaultLiterals == <<"null", "0", "false", "[]", "{}", "''", "\"\"">>

\* field.lower().split(".", 1) of the nested fields: parent and child
NestedFields ==
    ("priceInfo.price" :> <<"priceinfo", "price">>)
        @@ ("priceInfo.currencyCode" :> <<"priceinfo", "currencycode">>)

\* the text occurs at index i of s
OccursAt(s, sub, i) == i >= 1 /\ SubSeq(s, i, i + Len(sub) - 1) = sub

\* \b between the tokens i - 1 and i
Boundary(s, i) == IsWord(At(s, i - 1)) # IsWord(At(s, i))

\* re.search with a fault: the pattern is searched for without the \b's
SearchPlain(pattern_text, s) ==
    \E i \in 1..(Len(s) - Len(pattern_text) + 1) : OccursAt(s, pattern_text, i)

\* re.search(r"\b" + re.escape(pattern_text) + r"\b", s)
SearchWord(pattern_text, s) ==
    \E i \in 1..(Len(s) - Len(pattern_text) + 1) :
        /\ OccursAt(s, pattern_text, i)
        /\ Boundary(s, i)
        /\ Boundary(s, i + Len(pattern_text))

\* the body of the loop over the critical fields: the field is appended
FieldDefaulted(sql_query_lowered, field) ==
    IF field \in DOMAIN NestedFields
    THEN \E k \in 1..Len(DefaultLiterals) :
            LET pattern_text == <<"struct", "(", DefaultLiterals[k], " ", "as", " ",
                                  NestedFields[field][2]>>
            IN  \E i \in 1..(Len(sql_query_lowered) - Len(pattern_text) + 1) :
                    OccursAt(sql_query_lowered, pattern_text, i)
    ELSE \E k \in 1..Len(DefaultLiterals) :
            SearchWord(<<DefaultLiterals[k], " ", "as", " ", LowerTok(field)>>,
                       sql_query_lowered)

\* the orders in which a list made of a set may hold its elements
Orderings(S) ==
    {l \in [1..Cardinality(S) -> S] : \A i, j \in 1..Cardinality(S) : l[i] = l[j] => i = j}

\* FieldAnalyzer.identify_defaulted_fields: the lists it may return, the
\* order of list(set(...)) being any
identify_defaulted_fields(sql_query, critical_fields) ==
    LET critical_fields_to_check == IF critical_fields = None
                                    THEN DEFAULT_CRITICAL_FIELDS
                                    ELSE critical_fields
        fields_to_refine ==
            SelectSeq(critical_fields_to_check,
                      LAMBDA field : FieldDefaulted(lower(sql_query), field))
    IN  IF ~Truthy(sql_query)
        THEN {<<>>}
        ELSE Orderings({fields_to_refine[i] : i \in 1..Len(fields_to_refine)})

-----------------------------------------------------------------------------
(* The Generator, the Enhancer and the Fixer *)

\* the gate of the three of them with a fault: the heads that
\* extract_sql_from_text lets through pass
LooksLikeSqlOrExtractable(sql_query) ==
    \E head \in ExtractableHeads : startswith(upper(sql_query), head)

\* x.upper().startswith("CREATE OR REPLACE TABLE") or
\* x.upper().startswith("SELECT")
LooksLikeSql(sql_query) ==
    \/ startswith(upper(sql_query), CreateOrReplaceTable)
    \/ startswith(upper(sql_query), <<"SELECT">>)

\* InitialSQLGenerator.generate from the schema check on, given what
\* generate_content returned
generate(destination_schema, default_destination_schema, r) ==
    IF ~Truthy(Or(destination_schema, default_destination_schema))
    THEN Returned(None, <<"No destination schema provided and no default schema loaded.">>)
    ELSE IF Truthy(r.error)
    THEN Returned(None, r.error)
    ELSE IF ~Truthy(r.text)
    THEN Returned(None, <<"No text response received from GenAI for initial SQL generation.">>)
    ELSE LET extracted == extract_sql_from_text(r.text)
             err_msg == <<"Could not extract SQL from GenAI response. Finish Reason: ">>
                           \o FinishName(r.finish) \o <<". Response text: ">>
                           \o Preview(r.text) \o <<"...">>
             sql_query == IF Truthy(extracted) THEN extracted ELSE strip(r.text)
             fixed == ApplyProgrammaticFixes(sql_query)
         IN  IF ~Truthy(extracted) /\ ~LooksLikeSql(strip(r.text))
             THEN Returned(None, err_msg)
             ELSE IF ~LooksLikeSql(fixed)
             THEN Returned(None, <<"Final SQL content after fixes does not appear to be a valid SQL query: ">>
                                   \o Preview(fixed) \o <<"...">>)
             ELSE Returned(fixed, None)

\* enhance_sql with a fault: a failure returns no script, as in the Generator
enhance_sql_dropping_script(current_sql_query, destination_schema, default_destination_schema, r) ==
    IF ~Truthy(Or(destination_schema, default_destination_schema))
    THEN Returned(None, <<"No destination schema provided for semantic enhancement and no default schema loaded.">>)
    ELSE IF Truthy(r.error)
    THEN Returned(None, r.error)
    ELSE IF ~Truthy(r.text)
    THEN Returned(None, <<"No text response received from GenAI for semantic SQL enhancement.">>)
    ELSE LET extracted == extract_sql_from_text(r.text)
             err_msg == <<"Could not extract SQL from GenAI response for semantic enhancement. Finish Reason: ">>
                           \o FinishName(r.finish) \o <<". Response text: ">>
                           \o Preview(r.text) \o <<"...">>
             refined_sql_query == IF Truthy(extracted) THEN extracted ELSE strip(r.text)
             fixed == ApplyProgrammaticFixes(refined_sql_query)
         IN  IF ~Truthy(extracted) /\ ~LooksLikeSql(strip(r.text))
             THEN Returned(None, err_msg)
             ELSE IF ~LooksLikeSql(fixed)
             THEN Returned(None,
                           <<"Semantically enhanced SQL content after fixes does not appear to be a valid SQL query: ">>
                               \o Preview(fixed) \o <<"...">>)
             ELSE Returned(fixed, None)

\* SemanticEnhancer.enhance_sql, given what generate_content returned
enhance_sql(current_sql_query, destination_schema, default_destination_schema, r) ==
    IF ~Truthy(Or(destination_schema, default_destination_schema))
    THEN Returned(current_sql_query, <<"No destination schema provided for semantic enhancement and no default schema loaded.">>)
    ELSE IF Truthy(r.error)
    THEN Returned(current_sql_query, r.error)
    ELSE IF ~Truthy(r.text)
    THEN Returned(current_sql_query, <<"No text response received from GenAI for semantic SQL enhancement.">>)
    ELSE LET extracted == extract_sql_from_text(r.text)
             err_msg == <<"Could not extract SQL from GenAI response for semantic enhancement. Finish Reason: ">>
                           \o FinishName(r.finish) \o <<". Response text: ">>
                           \o Preview(r.text) \o <<"...">>
             refined_sql_query == IF Truthy(extracted) THEN extracted ELSE strip(r.text)
             fixed == ApplyProgrammaticFixes(refined_sql_query)
         IN  IF ~Truthy(extracted) /\ ~LooksLikeSql(strip(r.text))
             THEN Returned(current_sql_query, err_msg)
             ELSE IF ~LooksLikeSql(fixed)
             THEN Returned(current_sql_query,
                           <<"Semantically enhanced SQL content after fixes does not appear to be a valid SQL query: ">>
                               \o Preview(fixed) \o <<"...">>)
             ELSE Returned(fixed, None)

SQL_FIX_OUTPUT_SCHEMA == <<"sql_fix_output">>

\* the fixed_sql of the function call, None when the call is not the tool's or
\* has no such argument
StructuredFix(r) ==
    IF r.call # NoFunctionCall /\ r.call.name = SQL_FIX_OUTPUT_SCHEMA
    THEN LET fargs == parse_function_call_args(r.call, SQL_FIX_OUTPUT_SCHEMA)
         IN  IF HasKey(fargs, "fixed_sql")
             THEN fargs.fixed_sql
             ELSE None
    ELSE None

\* the candidate with a fault: the text response is looked at first
FixCandidateTextFirst(r) ==
    LET structured == StructuredFix(r)
        extracted  == extract_sql_from_text(r.text)
    IN  IF Truthy(r.text) /\ Truthy(extracted)
        THEN [from |-> "extracted", sql |-> extracted, err |-> None]
        ELSE IF Truthy(structured)
        THEN [from |-> "structured", sql |-> structured, err |-> None]
        ELSE [from |-> "none", sql |-> None,
              err |-> <<"Failed to obtain fixed SQL. Finish reason: ">>
                         \o FinishName(r.finish) \o <<".">>]

\* lines 132-167 of fix_sql: the script it goes on with and where it took it
\* from, or the error it returns
FixCandidate(r) ==
    LET structured == StructuredFix(r)
        extracted  == extract_sql_from_text(r.text)
    IN  IF Truthy(structured)
        THEN [from |-> "structured", sql |-> structured, err |-> None]
        ELSE IF ~Truthy(r.text)
        THEN [from |-> "none", sql |-> None,
              err |-> <<"Failed to obtain fixed SQL. Finish reason: ">>
                         \o FinishName(r.finish) \o <<".">>]
        ELSE IF Truthy(extracted)
        THEN [from |-> "extracted", sql |-> extracted, err |-> None]
        ELSE IF LooksLikeSql(strip(r.text))
        THEN [from |-> "raw", sql |-> strip(r.text), err |-> None]
        ELSE [from |-> "none", sql |-> None,
              err |-> <<"SQL Fix: No function call and text response does not appear to be SQL. Text: ">>
                         \o Preview(r.text)]

\* fix_sql with a fault: a script that fails the gate is returned with the
\* error
fix_sql_keeping_script(sql_script_to_fix, error_message, r) ==
    IF error_message = None
    THEN Raises(<<"'NoneType' object is not subscriptable">>)
    ELSE IF Truthy(r.error)
    THEN Returned(None, r.error)
    ELSE LET c == FixCandidate(r)
             fixed_sql == ApplyProgrammaticFixes(c.sql)
         IN  IF c.from = "none"
             THEN Returned(None, c.err)
             ELSE IF ~LooksLikeSql(fixed_sql)
             THEN Returned(fixed_sql, <<"Final fixed SQL content after programmatic fixes does not appear to be a valid SQL query: ">>
                                   \o Preview(fixed_sql) \o <<"...">>)
             ELSE Returned(fixed_sql, None)

\* SQLFixer.fix_sql, given what generate_content returned
fix_sql(sql_script_to_fix, error_message, r) ==
    IF error_message = None
    THEN Raises(<<"'NoneType' object is not subscriptable">>)
    ELSE IF Truthy(r.error)
    THEN Returned(None, r.error)
    ELSE LET c == FixCandidate(r)
             fixed_sql == ApplyProgrammaticFixes(c.sql)
         IN  IF c.from = "none"
             THEN Returned(None, c.err)
             ELSE IF ~LooksLikeSql(fixed_sql)
             THEN Returned(None, <<"Final fixed SQL content after programmatic fixes does not appear to be a valid SQL query: ">>
                                   \o Preview(fixed_sql) \o <<"...">>)
             ELSE Returned(fixed_sql, None)

-----------------------------------------------------------------------------
(* What generate_content returns *)

\* the fence of a markdown block
FencedSql(s) == Fence \o <<"sql", "\n">> \o s \o <<"\n">> \o Fence

\* the texts of a response, as generate_content strips them
ResponseTexts ==
    {None, <<>>,
     <<"SELECT", " ", "id">>,
     <<"select", " ", "id">>,
     FencedSql(<<"SELECT", " ", "id">>),
     Fence \o <<"SELECT", " ", "id">> \o Fence,
     <<"CREATE", " ", "OR", " ", "REPLACE", " ", "TABLE", Tick, "t", Tick, "\n", "AS",
       " ", "SELECT", " ", "id">>,
     <<"WITH", " ", "t", " ", "AS", " ", "(", "SELECT", " ", "id", ")", " ", "SELECT",
       " ", "id", " ", "FROM", " ", "t">>,
     FencedSql(<<"DELETE", " ", "FROM", " ", "t">>),
     <<Tick, "SELECT", " ", "id">>,
     <<"Sorry">>}

\* the fixed_sql arguments of a function call
FixedSqlChoices ==
    {None, <<>>,
     <<"SELECT", " ", "name">>,
     <<Tick, Tick, "SELECT", " ", "name">>,
     <<"create", " ", "or", " ", "replace", " ", "table", " ", " ", Tick, "t", Tick,
       "AS", " ", "SELECT", " ", "name">>,
     <<"WITH", " ", "t", " ", "AS", " ", "(", "SELECT", " ", "name", ")", " ", "SELECT",
       " ", "name", " ", "FROM", " ", "t">>,
     <<"Sorry">>}

\* the function calls of a response: none, the fix tool's with no arguments,
\* with an empty dict, with arguments that lack fixed_sql, with a fixed_sql,
\* with the arguments under the tool's name, and another tool's
ResponseCalls ==
    {NoFunctionCall,
     FunctionCall(SQL_FIX_OUTPUT_SCHEMA, NoDict),
     FunctionCall(SQL_FIX_OUTPUT_SCHEMA, Dict(FALSE, Missing, Missing)),
     FunctionCall(SQL_FIX_OUTPUT_SCHEMA, Dict(FALSE, Missing, <<"Sorry">>)),
     FunctionCall(SQL_FIX_OUTPUT_SCHEMA, Dict(TRUE, <<"SELECT", " ", "name">>, Missing)),
     FunctionCall(<<"other_tool">>, Dict(FALSE, <<"SELECT", " ", "name">>, Missing))}
        \cup {FunctionCall(SQL_FIX_OUTPUT_SCHEMA, Dict(FALSE, f, <<>>)) :
                f \in FixedSqlChoices}

FinishReasons == {None, <<"STOP">>}

\* what generate_content may return (lines 107, 119, 148, 152)
Responses ==
    {Response(None, NoFunctionCall, e, None) :
        e \in {<<"No candidates in the GenAI response.">>,
               <<"Failed to generate content: ", "503">>}}
        \cup {Response(None, NoFunctionCall, <<"Output truncated due to MAX_TOKENS limit.">>,
                       <<"MAX_TOKENS">>)}
        \cup {Response(text, call, None, finish) :
                text \in ResponseTexts, call \in ResponseCalls, finish \in FinishReasons}

-----------------------------------------------------------------------------
(* The functions of the SQL services on their own: each is called on the    *)
(* texts and the responses below.                                          *)

RECURSIVE Ticks(_)
Ticks(n) == IF n = 0 THEN <<>> ELSE <<Tick>> \o Ticks(n - 1)

Gaps == {<<>>, <<" ">>, <<" ", " ">>, <<"\n">>}

\* CREATE OR REPLACE TABLE `t` AS SELECT 0, spaced and cased in several ways
CreateStatements ==
    {<<kw>> \o g1 \o <<"OR", " ", "REPLACE", " ", "TABLE">> \o g2 \o <<Tick, "t", Tick>>
        \o g3 \o <<"AS">> \o g4 \o <<"SELECT", " ", "0">> :
        kw \in {"CREATE", "create"}, g1 \in Gaps \ {<<>>}, g2 \in Gaps, g3 \in Gaps,
        g4 \in {<<" ">>, <<"\n">>}}

SelectStatements ==
    {<<"SELECT", " ", "0">>, <<"select", " ", "0">>,
     <<"x", " ", Tick, "\n", "AS", " ", "SELECT">>, <<>>}

\* the texts _apply_programmatic_fixes is called on: a statement behind
\* leading backticks
FixInputs ==
    {Ticks(n) \o b : n \in 0..MaxTicks, b \in CreateStatements \cup SelectStatements}

\* a select list with one mapping of the field, a literal or a source column
MappingsOf(f) ==
    {<<d, " ", "AS", " ", f>> : d \in {"NULL", "null", "0", "FALSE", "[]", "''", "x"}}
        \cup {<<"source", ".", f, " ", "AS", " ", f>>}

AnalyzerFields == {"name", "id"}

\* the SQL identify_defaulted_fields is called on
AnalyzerInputs ==
    {pre \o m \o suf :
        pre \in {<<"SELECT", " ">>, <<"SELECT", "\n">>, <<"SELECT", " ", "x", ",">>,
                 <<"SELECT", " ", "x">>},
        m \in UNION {MappingsOf(f) : f \in AnalyzerFields},
        suf \in {<<>>, <<" ", "FROM", " ", "t">>, <<",", " ", "0", " ", "AS", " ", "id">>,
                 <<"x">>}}
        \cup {<<>>}

CriticalFieldChoices ==
    {None, <<>>, <<"name">>, <<"id">>, <<"name", "id">>, <<"name", "name">>}

\* _apply_programmatic_fixes is called on a text and returns
CallApplyProgrammaticFixes ==
    /\ io = NoCall
    /\ \E s \in FixInputs :
          io' = [fn |-> "_apply_programmatic_fixes", in |-> <<s>>,
                 out |-> ApplyProgrammaticFixes(s)]
    /\ UNCHANGED <<task_status, clock, lastOp, pc, args, loc, calls, held, stores,
                   firestore>>

\* identify_defaulted_fields is called on a script and returns one of the
\* lists list(set()) may make of the fields it found
CallIdentifyDefaultedFields ==
    /\ io = NoCall
    /\ \E s \in AnalyzerInputs, cf \in CriticalFieldChoices :
          \E out \in identify_defaulted_fields(s, cf) :
              io' = [fn |-> "identify_defaulted_fields", in |-> <<s, cf>>, out |-> out]
    /\ UNCHANGED <<task_status, clock, lastOp, pc, args, loc, calls, held, stores,
                   firestore>>

\* the errors of a script that fix_sql is called with
ErrorMessages == {<<"Unrecognized name: x">>, <<>>}

\* fix_sql is called on a script and its error, generate_content returns r
CallFixSql ==
    /\ io = NoCall
    /\ \E e \in ErrorMessages, r \in Responses :
          io' = [fn |-> "fix_sql", in |-> <<<<"SELECT", " ", "x">>, e, r>>,
                 out |-> fix_sql(<<"SELECT", " ", "x">>, e, r)]
    /\ UNCHANGED <<task_status, clock, lastOp, pc, args, loc, calls, held, stores,
                   firestore>>

FunctionNext ==
    \/ CallApplyProgrammaticFixes
    \/ CallIdentifyDefaultedFields
    \/ CallFixSql

FunctionSpec == Init /\ [][FunctionNext]_vars

-----------------------------------------------------------------------------
(* The runs with the Generator, the Field Analyzer, the Enhancer and the    *)
(* Fixer as their code is: each is worked out from what generate_content    *)
(* returns to it.                                                          *)

SelectSource == <<"SELECT", " ", "source", ".", "name", " ", "AS", " ", "name">>

SelectDefault == <<"SELECT", " ", "NULL", " ", "AS", " ", "name">>

WithSelect == <<"WITH", " ", "t", " ", "AS", " ", "(", "SELECT", " ", "0", ")", " ",
                "SELECT", " ", "0", " ", "FROM", " ", "t">>

\* what generate_content returns to a collaborator of a run
PipelineResponses ==
    {Response(None, NoFunctionCall, <<"Failed to generate content: ", "503">>, None)}
        \cup {Response(text, NoFunctionCall, None, <<"STOP">>) :
                text \in {None, <<>>, SelectSource, SelectDefault,
                          FencedSql(<<"create", " ", "or", " ", "replace", " ", "table",
                                      Tick, "t", Tick, "\n", "AS", " ">> \o SelectDefault),
                          <<Tick>> \o SelectDefault,
                          WithSelect,
                          <<"INSERT", " ", "t">>, <<"UPDATE", " ", "t">>,
                          FencedSql(<<"DELETE", " ", "FROM", " ", "t">>),
                          <<"Sorry">>}}
        \cup {Response(text, FunctionCall(SQL_FIX_OUTPUT_SCHEMA, Dict(FALSE, f, <<>>)),
                       None, <<"STOP">>) :
                text \in {None, <<"Sorry">>},
                f \in {Missing, <<>>, SelectSource, <<Tick, Tick>> \o SelectSource,
                       WithSelect}}

\* the arguments of the runs
ResponseArgChoices ==
    [destination_schema                      : {<<"schema">>},
     default_destination_schema              : {None},
     source_data_sample_json                 : {None, <<"[rows]">>},
     critical_fields_for_semantic_refinement : {None, <<"id">>},
     max_fix_attempts                        : {-1, 0, 1}]

\* what the Field Analyzer hands back for the script of the run
Analyzed(current_sql, a) ==
    {Returned(d, None) :
        d \in identify_defaulted_fields(
                 current_sql, FieldsToCheck(a.critical_fields_for_semantic_refinement))}

\* the run leaves its stretch k behind, having made the collaborator calls cl,
\* the last of them c
CommitResponse(t, k, cl, c) ==
    LET w == StoreCalls(World, t, k.cs)
    IN  /\ task_status' = w.ts
        /\ clock' = w.clk
        /\ pc' = [pc EXCEPT ![t] = k.pc]
        /\ loc' = [loc EXCEPT ![t] = k.loc]
        /\ calls' = [calls EXCEPT ![t] = @ \o cl \o k.made]
        /\ io' = c
        /\ UNCHANGED <<lastOp, args, held, stores, firestore>>

ResponseStartRun(t) ==
    /\ pc[t] = "idle"
    /\ \E a \in ResponseArgChoices : StartRunWith(t, a)

ResponseGenerate(t) ==
    /\ pc[t] = "generate"
    /\ \E r \in PipelineResponses :
       \E g \in {generate(args[t].destination_schema,
                          args[t].default_destination_schema, r)} :
       \E d \in Analyzed(g.val, args[t]) :
         CommitResponse(t, OnGenerate(loc[t], args[t], g, d),
                        <<CallOf("generate", SourceTable, DestinationTable, g)>>,
                        [fn |-> "generate", in |-> <<r>>, out |-> g])

ResponseFetch(t) ==
    /\ pc[t] = "fetch"
    /\ \E r \in FetchOutcomes :
       \E d \in Analyzed(loc[t].current_sql, args[t]) :
         Commit(t, OnFetch(loc[t], args[t], r, d),
                <<Call("fetch", SourceTable, None,
                       IF r.kind = "rows" THEN <<ToString(r.rows)>> ELSE RaiseMark,
                       r.err)>>)

ResponseEnhance(t) ==
    /\ pc[t] = "enhance"
    /\ \E r \in PipelineResponses :
       \E e \in {enhance_sql(loc[t].current_sql, args[t].destination_schema,
                             args[t].default_destination_schema, r)} :
         CommitResponse(t, OnEnhance(loc[t], args[t].max_fix_attempts, e),
                        <<CallOf("enhance_sql", loc[t].current_sql,
                                 loc[t].defaulted_critical_fields, e)>>,
                        [fn |-> "enhance_sql", in |-> <<loc[t].current_sql, r>>,
                         out |-> e])

ResponseFix(t) ==
    /\ pc[t] = "fix"
    /\ \E r \in PipelineResponses :
       \E f \in {fix_sql(loc[t].current_sql, loc[t].error_detail, r)} :
         CommitResponse(t, OnFix(loc[t], args[t].max_fix_attempts, f),
                        <<CallOf("fix_sql", loc[t].current_sql, loc[t].error_detail, f)>>,
                        [fn |-> "fix_sql",
                         in |-> <<loc[t].current_sql, loc[t].error_detail, r>>,
                         out |-> f])

ResponseNext ==
    \E t \in TaskIds :
        \/ ResponseStartRun(t)
        \/ Start(t)
        \/ ResponseGenerate(t)
        \/ ResponseFetch(t)
        \/ ResponseEnhance(t)
        \/ Validate(t)
        \/ ResponseFix(t)

ResponseSpec == Init /\ [][ResponseNext]_vars

-----------------------------------------------------------------------------
(* tooling/enrichment: the Firestore bookkeeping of process_products.  The  *)
(* collection holds a document per product that was started, and the        *)
(* processing_status document with the last processed id.  A run of         *)
(* process_products goes from one Firestore write to the next and may be    *)
(* interrupted between any two of them.                                    *)

Products == 1..MaxProducts

\* a product's document: doc.exists, and the fields status and retry_count
Doc(status, retry_count) ==
    [exists |-> TRUE, status |-> status, retry_count |-> retry_count]

NoDoc == [exists |-> FALSE, status |-> "none", retry_count |-> 0]

FirestoreClient_get_last_processed_id(fs) == fs.last_processed_id

FirestoreClient_update_last_processed_id(fs, last_id) ==
    [fs EXCEPT !.last_processed_id = last_id]

\* is_product_processed with a fault: only a completed product is skipped
is_product_processed_completed_only(docs, product_id) ==
    IF docs[product_id].exists
    THEN docs[product_id].status = "completed"
    ELSE FALSE

is_product_processed(docs, product_id) ==
    IF docs[product_id].exists
    THEN docs[product_id].status = "completed" \/ docs[product_id].retry_count >= 3
    ELSE FALSE

\* the lists get_failed_products may return: the failed products with less
\* than three retries in the order of the stream, or [] when the query fails
get_failed_products(docs) ==
    Orderings({p \in Products :
                 /\ docs[p].exists
                 /\ docs[p].status = "failed"
                 /\ docs[p].retry_count < 3})
        \cup {<<>>}

start_product_processing(docs, product_id) ==
    [docs EXCEPT ![product_id] =
        Doc("processing", IF @.exists THEN @.retry_count + 1 ELSE 0)]

\* doc_ref.update on the document start_product_processing has set
complete_product_processing(docs, product_id) ==
    [docs EXCEPT ![product_id].status = "completed"]

mark_product_failed(docs, product_id) ==
    [docs EXCEPT ![product_id].status =
        IF docs[product_id].retry_count >= 3 THEN "permanently_failed" ELSE "failed"]

\* the rows of the query: the ids above last_processed_id in their order, the
\* table being shorter than BATCH_SIZE
RECURSIVE Ascending(_, _)
Ascending(from, to) == IF from > to THEN <<>> ELSE <<from>> \o Ascending(from + 1, to)

fetch_bigquery_data(last_processed_id) == Ascending(last_processed_id + 1, MaxProducts)

\* process_single_product up to the end of start_product_processing; the
\* history counts the start, and notes one that finds the product completed
\* or permanently failed
Started(fs, product_id, at) ==
    [fs EXCEPT !.docs = start_product_processing(@, product_id),
               !.at = at,
               !.product_id = product_id,
               !.starts[product_id] = @ + 1,
               !.restarted = @ \/ fs.docs[product_id].status
                                    \in {"completed", "permanently_failed"}]

\* the rest of process_single_product: complete_product_processing, or the
\* except branch with mark_product_failed
Written(fs, ok, at) ==
    [fs EXCEPT !.docs = IF ok
                        THEN complete_product_processing(@, fs.product_id)
                        ELSE mark_product_failed(@, fs.product_id),
               !.at = at]

\* process_products up to the loop over the failed products
BeginRun ==
    /\ firestore.at = "idle"
    /\ \E failed_products \in get_failed_products(firestore.docs) :
          firestore' = [firestore EXCEPT
                           !.at = "retry",
                           !.last_id = FirestoreClient_get_last_processed_id(firestore),
                           !.todo = failed_products]
    /\ UNCHANGED <<task_status, clock, lastOp, pc, args, loc, calls, held, stores, io>>

\* for failed_product in failed_products: the product is started
RetryStart ==
    /\ firestore.at = "retry"
    /\ firestore.todo # <<>>
    /\ firestore.starts[Head(firestore.todo)] < MaxStarts
    /\ firestore' = Started(firestore, Head(firestore.todo), "retrying")
    /\ UNCHANGED <<task_status, clock, lastOp, pc, args, loc, calls, held, stores, io>>

RetryFinish ==
    /\ firestore.at = "retrying"
    /\ \E ok \in BOOLEAN :
          firestore' = [Written(firestore, ok, "retry") EXCEPT !.todo = Tail(@)]
    /\ UNCHANGED <<task_status, clock, lastOp, pc, args, loc, calls, held, stores, io>>

\* df = fetch_bigquery_data(last_id), after the failed products and after
\* each batch; the run ends when the query fails or returns no row
Fetch_bigquery_data ==
    /\ firestore.at \in {"retry", "new"}
    /\ firestore.todo = <<>>
    /\ \E df \in {fetch_bigquery_data(firestore.last_id), <<>>} :
          firestore' = IF df = <<>>
                       THEN [firestore EXCEPT !.at = "idle", !.last_id = 0]
                       ELSE [firestore EXCEPT !.at = "new", !.todo = df]
    /\ UNCHANGED <<task_status, clock, lastOp, pc, args, loc, calls, held, stores, io>>

\* if firestore_client.is_product_processed(product_id): ... continue
NewSkip ==
    /\ firestore.at = "new"
    /\ firestore.todo # <<>>
    /\ is_product_processed(firestore.docs, Head(firestore.todo))
    /\ firestore' = [firestore EXCEPT !.last_id = Head(firestore.todo),
                                      !.todo = Tail(@)]
    /\ UNCHANGED <<task_status, clock, lastOp, pc, args, loc, calls, held, stores, io>>

NewStart ==
    /\ firestore.at = "new"
    /\ firestore.todo # <<>>
    /\ ~is_product_processed(firestore.docs, Head(firestore.todo))
    /\ firestore.starts[Head(firestore.todo)] < MaxStarts
    /\ firestore' = Started(firestore, Head(firestore.todo), "processing")
    /\ UNCHANGED <<task_status, clock, lastOp, pc, args, loc, calls, held, stores, io>>

NewFinish ==
    /\ firestore.at = "processing"
    /\ \E ok \in BOOLEAN : firestore' = Written(firestore, ok, "written")
    /\ UNCHANGED <<task_status, clock, lastOp, pc, args, loc, calls, held, stores, io>>

\* last_id = product_id; firestore_client.update_last_processed_id(last_id)
NewAdvance ==
    /\ firestore.at = "written"
    /\ firestore' = [FirestoreClient_update_last_processed_id(firestore,
                                                              firestore.product_id)
                        EXCEPT !.at = "new",
                               !.last_id = firestore.product_id,
                               !.todo = Tail(@)]
    /\ UNCHANGED <<task_status, clock, lastOp, pc, args, loc, calls, held, stores, io>>

\* the process is stopped: what it held in memory is gone, the collection stays
Interrupt ==
    /\ firestore.at # "idle"
    /\ firestore' = [firestore EXCEPT !.at = "idle", !.last_id = 0, !.todo = <<>>]
    /\ UNCHANGED <<task_status, clock, lastOp, pc, args, loc, calls, held, stores, io>>

FirestoreNext ==
    \/ BeginRun
    \/ RetryStart
    \/ RetryFinish
    \/ Fetch_bigquery_data
    \/ NewSkip
    \/ NewStart
    \/ NewFinish
    \/ NewAdvance
    \/ Interrupt

FirestoreSpec == Init /\ [][FirestoreNext]_vars

-----------------------------------------------------------------------------
(* What the properties speak of *)

Includes(s, sub) ==
    \E i \in 1..(Len(s) - Len(sub) + 1) : SubSeq(s, i, i + Len(sub) - 1) = sub

CallsOf(t, op) == SelectSeq(calls[t], LAMBDA c : c.op = op)

Validations(t) == CallsOf(t, "validate_sql_dry_run")

Fixes(t) == CallsOf(t, "fix_sql")

LoopCalls(t) ==
    SelectSeq(calls[t], LAMBDA c : c.op \in {"validate_sql_dry_run", "fix_sql"})

Last(s) == s[Len(s)]

AllInvalid(t) ==
    \A i \in 1..Len(Validations(t)) : Validations(t)[i].out1 = <<"invalid">>

ReturnedScript(c) == c.out1 # RaiseMark /\ Truthy(c.out1) /\ ~Truthy(c.out2)

AllFixed(t) == \A i \in 1..Len(Fixes(t)) : ReturnedScript(Fixes(t)[i])

MaxFix(t) == args[t].max_fix_attempts

\* the statuses update_task_status wrote, read off its "Status changed to" entries
StatusOfEntry(e) ==
    IF e.message[3] = "." THEN <<e.message[2]>> ELSE <<e.message[2], e.message[3]>>

StatusWrites(t) ==
    LET ws == SelectSeq(task_status[t].logs,
                        LAMBDA e : e.message[1] = "Status changed to: ")
    IN  [i \in 1..Len(ws) |-> StatusOfEntry(ws[i])]

FetchThrew(t) ==
    \E i \in 1..Len(calls[t]) : calls[t][i].op = "fetch" /\ calls[t][i].out1 = RaiseMark

HasFetchWarning(t) ==
    \E i \in 1..Len(task_status[t].logs) :
        task_status[t].logs[i].message[1] = "WARNING: Failed to fetch source data sample: "

-----------------------------------------------------------------------------
(* C1: when execute_pipeline has returned, whatever the collaborators did  *)
(* and whatever max_fix_attempts was, the task's status is one of          *)
(* completed, failed, failed_validation_final_sql_available.               *)
C1_TerminalOnReturn ==
    \A t \in TaskIds :
        pc[t] = "done" =>
            /\ t \in DOMAIN task_status
            /\ task_status[t].status \in TerminalStatuses

\* a run the Fixer ended by raising, after one repair had gone through
C1_Witness ==
    \E t \in TaskIds :
        /\ pc[t] = "done"
        /\ Len(Fixes(t)) = 2
        /\ Last(calls[t]).op = "fix_sql"
        /\ Last(calls[t]).out1 = RaiseMark
        /\ task_status[t].status = <<"failed">>

(* C2: when every validation is invalid and every Fixer call returns a     *)
(* script, the run ends in failed_validation_final_sql_available with the  *)
(* last script as result and the last validation error as error.           *)
C2_ExhaustionKeepsScript ==
    \A t \in TaskIds :
        (/\ pc[t] = "done"
         /\ MaxFix(t) >= 1
         /\ Len(Fixes(t)) = MaxFix(t)
         /\ Len(Validations(t)) = MaxFix(t) + 1
         /\ AllInvalid(t)
         /\ AllFixed(t))
        => /\ task_status[t].status = <<"failed_validation_final_sql_available">>
           /\ task_status[t].result = Last(Fixes(t)).out1
           /\ task_status[t].error = Last(Validations(t)).out2

(* C3: with max_fix_attempts = n >= 0 a run calls the Fixer at most n      *)
(* times and the Validator at most n + 1 times.                            *)
C3_BoundedRetry ==
    \A t \in TaskIds :
        MaxFix(t) >= 0 =>
            /\ Len(Fixes(t)) <= MaxFix(t)
            /\ Len(Validations(t)) <= MaxFix(t) + 1

\* a run that used its whole budget of two repairs
C3_Witness ==
    \E t \in TaskIds :
        /\ pc[t] = "done"
        /\ MaxFix(t) = 2
        /\ Len(Fixes(t)) = 2
        /\ Len(Validations(t)) = 3

(* C4: a run that reaches validation, whose validations are all invalid    *)
(* and whose Fixer calls all return a script, makes exactly n + 1          *)
(* Validator calls and n Fixer calls, a validation first and one after     *)
(* each repair.                                                            *)
C4_ExactCounts ==
    \A t \in TaskIds :
        (/\ pc[t] = "done"
         /\ MaxFix(t) >= 0
         /\ Len(Validations(t)) >= 1
         /\ AllInvalid(t)
         /\ AllFixed(t))
        => /\ Len(Validations(t)) = MaxFix(t) + 1
           /\ Len(Fixes(t)) = MaxFix(t)
           /\ \A i \in 1..Len(LoopCalls(t)) :
                LoopCalls(t)[i].op =
                    IF i % 2 = 1 THEN "validate_sql_dry_run" ELSE "fix_sql"

\* the default budget of three repairs, all used, every validation invalid
C4_Witness ==
    \E t \in TaskIds :
        /\ pc[t] = "done"
        /\ MaxFix(t) = DEFAULT_MAX_FIX_ATTEMPTS
        /\ Len(Validations(t)) = 4
        /\ Len(Fixes(t)) = 3
        /\ AllInvalid(t)
        /\ AllFixed(t)

(* C5: if the first validation is valid, the run is over with status       *)
(* completed after that one Validator call and no Fixer call, and the      *)
(* result is the script that was validated.                                *)
C5_ValidFirst ==
    \A t \in TaskIds :
        (Len(Validations(t)) >= 1 /\ Validations(t)[1].out1 = <<"valid">>)
        => /\ pc[t] = "done"
           /\ task_status[t].status = <<"completed">>
           /\ Len(Validations(t)) = 1
           /\ Len(Fixes(t)) = 0
           /\ task_status[t].result = Validations(t)[1].in1

\* the validated script is the one the Enhancer refined
C5_Witness ==
    \E t \in TaskIds :
        /\ Len(Validations(t)) = 1
        /\ Validations(t)[1].out1 = <<"valid">>
        /\ Len(CallsOf(t, "enhance_sql")) = 1
        /\ CallsOf(t, "enhance_sql")[1].out2 = None
        /\ task_status[t].result = CallsOf(t, "enhance_sql")[1].out1
        /\ task_status[t].status = <<"completed">>

(* C6: a Fixer call that returns no script or an empty one is the last     *)
(* collaborator call of the run: the run ends in failed, the task's error  *)
(* contains the Fixer's error text, and the Validator is not called again. *)
C6_FixerFailureFatal ==
    \A t \in TaskIds :
        \A i \in 1..Len(calls[t]) :
            (calls[t][i].op = "fix_sql" /\ calls[t][i].out1 \in {None, <<>>})
            => /\ i = Len(calls[t])
               /\ pc[t] = "done"
               /\ task_status[t].status = <<"failed">>
               /\ Truthy(task_status[t].error)
               /\ Truthy(calls[t][i].out2)
                    => Includes(task_status[t].error, calls[t][i].out2)

\* the second Fixer call of a run returns (None, "model error")
C6_Witness ==
    \E t \in TaskIds :
        /\ Len(Fixes(t)) = 2
        /\ Last(calls[t]).op = "fix_sql"
        /\ Last(calls[t]).out1 = None
        /\ Last(calls[t]).out2 = <<"model error">>
        /\ Includes(task_status[t].error, <<"model error">>)

(* C7: if the Generator returns no script, the run ends in failed and no   *)
(* other collaborator (Validator, Fixer, Enhancer) is called in it.        *)
C7_GeneratorFailure ==
    \A t \in TaskIds :
        (/\ Len(calls[t]) >= 1
         /\ calls[t][1].op = "generate"
         /\ calls[t][1].out1 = None)
        => /\ pc[t] = "done"
           /\ task_status[t].status = <<"failed">>
           /\ Len(calls[t]) = 1

\* the Generator returned (None, "no schema")
C7_Witness ==
    \E t \in TaskIds :
        /\ Len(calls[t]) = 1
        /\ calls[t][1].op = "generate"
        /\ calls[t][1].out1 = None
        /\ Includes(task_status[t].error, <<"no schema">>)
        /\ task_status[t].status = <<"failed">>

(* C8: if the sample fetch throws, the run has logged a warning, never     *)
(* calls the Enhancer, goes on to validation (the fetch failure does not   *)
(* end it), and its first validation receives the Generator's script.      *)
C8_FetchFailureTolerated ==
    \A t \in TaskIds :
        FetchThrew(t) =>
            /\ ~Truthy(args[t].source_data_sample_json)
            /\ HasFetchWarning(t)
            /\ Len(CallsOf(t, "enhance_sql")) = 0
            /\ MaxFix(t) >= 0 => (pc[t] = "validate" \/ Len(Validations(t)) >= 1)
            /\ Len(Validations(t)) >= 1
                 => Validations(t)[1].in1 = CallsOf(t, "generate")[1].out1

\* the fetch threw and the run completed with the Generator's script
C8_Witness ==
    \E t \in TaskIds :
        /\ FetchThrew(t)
        /\ pc[t] = "done"
        /\ task_status[t].status = <<"completed">>
        /\ task_status[t].result = CallsOf(t, "generate")[1].out1

(* C9 as stated: over any sequence of init_task, update_task_status and    *)
(* add_task_log calls, a task's earlier logs are a prefix of its later     *)
(* logs.                                                                   *)
C9_LogsOnlyGrow ==
    [][\A t \in TaskIds :
          (t \in DOMAIN task_status /\ t \in DOMAIN task_status')
          => IsPrefix(task_status[t].logs, task_status'[t].logs)]_vars

(* C9: update_task_status and add_task_log only append to a task's logs    *)
(* (the earlier logs are a prefix of the later ones) and no operation      *)
(* removes a task; init_task on an id that exists starts the record anew,  *)
(* its logs holding the "Task initialized" entry alone.                    *)
C9_LogsGrowUnlessReinitialized ==
    [][\A t \in TaskIds :
          t \in DOMAIN task_status
          => /\ t \in DOMAIN task_status'
             /\ \/ IsPrefix(task_status[t].logs, task_status'[t].logs)
                \/ /\ lastOp'.op = "init_task"
                   /\ lastOp'.task_id = t
                   /\ Len(task_status'[t].logs) = 1
                   /\ task_status'[t].logs[1].message[1] = "Task initialized. Type: "]_vars

\* the only task of the store was initialized a second time and logged to since
C9_Witness ==
    \E t \in TaskIds :
        /\ DOMAIN task_status = {t}
        /\ task_status[t].created_at > 1
        /\ Len(task_status[t].logs) >= 3
        /\ lastOp.op = "add_task_log"

(* C10: of the statuses a run writes, only the last can be terminal: once  *)
(* completed, failed or failed_validation_final_sql_available is written,  *)
(* the run writes no status again.                                         *)
C10_TerminalIsFinal ==
    \A t \in DOMAIN task_status :
        LET sw == StatusWrites(t)
        IN  /\ \A i \in 1..(Len(sw) - 1) : sw[i] \notin TerminalStatuses
            /\ Len(sw) > 0 => task_status[t].status = Last(sw)

\* a run that went through every phase and two repairs before it completed
C10_Witness ==
    \E t \in DOMAIN task_status :
        /\ pc[t] = "done"
        /\ Len(StatusWrites(t)) = 10
        /\ Last(StatusWrites(t)) = <<"completed">>

(* C11: after a run has returned, a task whose status is completed has a   *)
(* non-null, non-empty result and a null error, and a task whose status is *)
(* failed or failed_validation_final_sql_available has a non-null error.   *)
C11_PollerSeesResultOrError ==
    \A t \in TaskIds :
        pc[t] = "done" =>
            /\ task_status[t].status = <<"completed">>
                 => (Truthy(task_status[t].result) /\ task_status[t].error = None)
            /\ task_status[t].status
                    \in {<<"failed">>, <<"failed_validation_final_sql_available">>}
                 => task_status[t].error # None

-----------------------------------------------------------------------------
(* The task store's operations, as steps *)

StoreOps == {"init_task", "update_task_status", "add_task_log", "get_task_status"}

EditOps == {"set_field", "append_log", "set_input_detail"}

\* the step is update_task_status(t, status, result, error) on a stored task
UpdatesStored(t) ==
    /\ lastOp'.op = "update_task_status"
    /\ lastOp'.task_id = t
    /\ t \in DOMAIN task_status

\* the step appended entries with these messages to the logs of t, and no other
Appended(t, msgs) ==
    /\ Len(task_status'[t].logs) = Len(task_status[t].logs) + Len(msgs)
    /\ IsPrefix(task_status[t].logs, task_status'[t].logs)
    /\ \A i \in 1..Len(msgs) :
         task_status'[t].logs[Len(task_status[t].logs) + i].message = msgs[i]

IndicatesFailure(status) ==
    status \in {<<"failed">>, <<"failed_validation_final_sql_available">>}

(* C12: a task-store operation invoked with one task id leaves the record  *)
(* of every other id as it was, and the set of stored ids too, except that *)
(* init_task may add its own id.                                           *)
C12_OtherTasksUntouched ==
    [][lastOp'.op \in StoreOps =>
          LET a == lastOp'.task_id
          IN  /\ \A b \in TaskIds \ {a} :
                   /\ (b \in DOMAIN task_status) = (b \in DOMAIN task_status')
                   /\ b \in DOMAIN task_status => task_status'[b] = task_status[b]
              /\ \/ DOMAIN task_status' = DOMAIN task_status
                 \/ /\ lastOp'.op = "init_task"
                    /\ DOMAIN task_status' = DOMAIN task_status \cup {a}]_vars

\* both tasks are stored, and an update_task_status on A has just set its
\* status and error while B stands as init_task left it
C12_Witness ==
    /\ lastOp.op = "update_task_status"
    /\ lastOp.task_id = "A"
    /\ DOMAIN task_status = {"A", "B"}
    /\ task_status["A"].status = <<"failed">>
    /\ task_status["A"].error = <<"oops">>
    /\ task_status["B"].status = <<"received">>
    /\ Len(task_status["B"].logs) = 1

(* C13: update_task_status and add_task_log on a task id that is not in    *)
(* the store return normally, create no record and leave the store as it   *)
(* was.                                                                    *)
C13_UnknownIdIsNoOp ==
    [][(/\ lastOp'.op \in {"update_task_status", "add_task_log"}
        /\ lastOp'.task_id \notin DOMAIN task_status)
       => /\ task_status' = task_status
          /\ clock' = clock]_vars

\* update_task_status was just called on B, which the store (holding A) does
\* not know, with a result and an error
C13_Witness ==
    /\ lastOp.op = "update_task_status"
    /\ lastOp.task_id = "B"
    /\ lastOp.args[2] # None
    /\ Truthy(lastOp.args[3])
    /\ DOMAIN task_status = {"A"}

(* C14 as stated: right after init_task the record has status "received",  *)
(* an empty logs sequence, a null result and a null error.                 *)
C14_InitTaskLeavesEmptyLogs ==
    lastOp.op = "init_task" =>
        LET r == task_status[lastOp.task_id]
        IN  /\ r.status = <<"received">>
            /\ r.logs = <<>>
            /\ r.result = None
            /\ r.error = None

(* C14: right after init_task, whether or not the id was stored before,    *)
(* the record has status "received", a null result, a null error, and logs *)
(* holding one entry, the "Task initialized" message.                      *)
C14_InitTaskStartsAnew ==
    lastOp.op = "init_task" =>
        /\ lastOp.task_id \in DOMAIN task_status
        /\ LET r == task_status[lastOp.task_id]
           IN  /\ r.status = <<"received">>
               /\ r.result = None
               /\ r.error = None
               /\ Len(r.logs) = 1
               /\ r.logs[1].message = InitializedMsg(lastOp.args[1], lastOp.args[2])
               /\ r.task_id = lastOp.task_id
               /\ r.task_type = lastOp.args[1]

\* init_task has just been called on the one task of the store, which had
\* been initialized and updated before (its clock readings are not the first)
C14_Witness ==
    /\ lastOp.op = "init_task"
    /\ DOMAIN task_status = {lastOp.task_id}
    /\ task_status[lastOp.task_id].created_at > 5

(* C15 as stated: update_task_status on a stored task with an error stores *)
(* it and appends a log entry; without an error it clears the stored error *)
(* exactly when the previous status indicated failure and the new one does *)
(* not, and leaves it unchanged otherwise.                                 *)
C15_ErrorFollowsStatus ==
    [][\A t \in TaskIds :
          UpdatesStored(t) =>
              LET status == lastOp'.args[1]
                  error  == lastOp'.args[3]
              IN  IF Truthy(error)
                  THEN /\ task_status'[t].error = error
                       /\ Len(task_status'[t].logs) > Len(task_status[t].logs) + 1
                  ELSE error = None =>
                         task_status'[t].error =
                           IF /\ IndicatesFailure(task_status[t].status)
                              /\ ~IndicatesFailure(status)
                           THEN None
                           ELSE task_status[t].error]_vars

(* C15: update_task_status on a stored task with a non-empty error stores  *)
(* it and appends an "ERROR: ..." log entry before the status entry; with  *)
(* no error, or an empty one, it sets the stored error to null (and logs   *)
(* that) exactly when the new status is not "failed" and an error was      *)
(* stored, whatever the previous status, and leaves it unchanged otherwise.*)
C15_ErrorSetOrCleared ==
    [][\A t \in TaskIds :
          UpdatesStored(t) =>
              LET status == lastOp'.args[1]
                  result == lastOp'.args[2]
                  error  == lastOp'.args[3]
                  changed == <<"Status changed to: ">> \o status \o <<".">>
                               \o (IF result # None THEN <<" Result updated.">> ELSE <<>>)
              IN  IF Truthy(error)
                  THEN /\ task_status'[t].error = error
                       /\ Appended(t, <<<<"ERROR: ">> \o error, changed>>)
                  ELSE IF status # <<"failed">> /\ task_status[t].error # None
                  THEN /\ task_status'[t].error = None
                       /\ Appended(t, <<<<"Previous error condition cleared.">>, changed>>)
                  ELSE /\ task_status'[t].error = task_status[t].error
                       /\ Appended(t, <<changed>>)]_vars

\* an error stored with the status "processing" has just been cleared by an
\* update to "completed" that carried no error
C15_Witness ==
    \E t \in DOMAIN task_status :
        LET l == task_status[t].logs
            n == Len(l)
        IN  /\ lastOp = [op |-> "update_task_status", task_id |-> t,
                         args |-> <<<<"completed">>, None, None>>]
            /\ n >= 5
            /\ l[n - 1].message = <<"Previous error condition cleared.">>
            /\ l[n - 2].message = <<"Status changed to: ", "processing", ".">>
            /\ l[n - 3].message = <<"ERROR: ", "oops">>
            /\ task_status[t].error = None

(* C16: no change made to the dict get_task_status returned (to one of its *)
(* keys, to its logs list, to its input details) changes the stored record *)
(* or what a later get_task_status returns.                                *)
C16_ReturnedDictIsDetached ==
    [][lastOp'.op \in EditOps =>
          /\ task_status' = task_status
          /\ \A t \in TaskIds :
               get_task_status([ts |-> task_status', clk |-> clock'], t)
                   = get_task_status(World, t)]_vars

(* C17: every operation that changes a stored record refreshes updated_at, *)
(* so updated_at is never earlier than the timestamp of the task's latest  *)
(* log entry.                                                              *)
C17_UpdatedAtCoversLogs ==
    \A t \in DOMAIN task_status :
        Len(task_status[t].logs) > 0 =>
            task_status[t].updated_at >= Last(task_status[t].logs).timestamp

-----------------------------------------------------------------------------
(* The statuses and results a run writes, read off the task's logs *)

\* the "Status changed to" entries that say " Result updated."
ResultWrites(t) ==
    SelectSeq(task_status[t].logs,
              LAMBDA e : /\ e.message[1] = "Status changed to: "
                         /\ e.message[Len(e.message)] = " Result updated.")

RECURSIVE LoopStatuses(_)
\* validating 1, then fixing k and validating k + 1 for each of the repairs
LoopStatuses(repairs) ==
    IF repairs = 0
    THEN <<<<"validating_sql_attempt_", "1">>>>
    ELSE LoopStatuses(repairs - 1)
            \o <<<<"fixing_sql_attempt_", ToString(repairs)>>,
                  <<"validating_sql_attempt_", ToString(repairs + 1)>>>>

SuccessPath(analyzed, enhanced, repairs) ==
    <<<<"pipeline_started">>, <<"generating_initial_sql">>>>
        \o (IF analyzed THEN <<<<"analyzing_for_semantic_enhancement">>>> ELSE <<>>)
        \o (IF enhanced THEN <<<<"performing_semantic_enhancement">>>> ELSE <<>>)
        \o LoopStatuses(repairs)
        \o <<<<"completed">>>>

Completed(t) ==
    /\ pc[t] = "done"
    /\ task_status[t].status = <<"completed">>

(* C18: during a run the task's result is null in every non-terminal       *)
(* status; it is written once, by the update that sets the status          *)
(* completed or failed_validation_final_sql_available, and never in a run  *)
(* that ends in failed.                                                    *)
C18_ResultWrittenOnce ==
    \A t \in DOMAIN task_status :
        LET r  == task_status[t]
            rw == ResultWrites(t)
        IN  /\ r.status \notin TerminalStatuses => (r.result = None /\ rw = <<>>)
            /\ r.status = <<"failed">> => (r.result = None /\ rw = <<>>)
            /\ r.status \in TerminalStatuses \ {<<"failed">>} =>
                  /\ r.result # None
                  /\ Len(rw) = 1
                  /\ rw[1] = Last(r.logs)
                  /\ StatusOfEntry(rw[1]) = r.status

\* a run completed with the script of its second repair
C18_Witness ==
    \E t \in DOMAIN task_status :
        /\ Completed(t)
        /\ Len(Fixes(t)) = 2
        /\ task_status[t].result = Last(Fixes(t)).out1
        /\ Len(ResultWrites(t)) = 1

(* C19 as stated: the statuses a successful run writes are, in order,      *)
(* pipeline_started, generating_initial_sql,                               *)
(* analyzing_for_semantic_enhancement, optionally                          *)
(* performing_semantic_enhancement, validating_sql_attempt_1, then pairs   *)
(* fixing_sql_attempt_k, validating_sql_attempt_(k+1), and completed.      *)
C19_SuccessfulRunStatuses ==
    \A t \in TaskIds :
        Completed(t) =>
            \E enhanced \in BOOLEAN :
                StatusWrites(t) = SuccessPath(TRUE, enhanced, Len(Fixes(t)))

(* C19: the statuses a successful run writes are, in order,                *)
(* pipeline_started, generating_initial_sql, then                          *)
(* analyzing_for_semantic_enhancement if a data sample was provided or     *)
(* fetched, then performing_semantic_enhancement if the Enhancer was       *)
(* called (which happens only after analyzing), validating_sql_attempt_1,  *)
(* then fixing_sql_attempt_k and validating_sql_attempt_(k+1) for each     *)
(* repair k = 1, 2, ..., and completed.                                    *)
C19_SuccessfulRunStatusesSampled ==
    \A t \in TaskIds :
        Completed(t) =>
            LET analyzed == Truthy(loc[t].fetched_sample_json_for_enhancement)
                enhanced == Len(CallsOf(t, "enhance_sql")) = 1
            IN  /\ enhanced => analyzed
                /\ StatusWrites(t) = SuccessPath(analyzed, enhanced, Len(Fixes(t)))

\* a successful run that fetched no sample (the query returned no row), so
\* wrote no analyzing status, and completed after one repair
C19_Witness ==
    \E t \in TaskIds :
        /\ Completed(t)
        /\ ~Truthy(loc[t].fetched_sample_json_for_enhancement)
        /\ Len(CallsOf(t, "fetch")) = 1
        /\ StatusWrites(t) =
             <<<<"pipeline_started">>, <<"generating_initial_sql">>,
               <<"validating_sql_attempt_", "1">>, <<"fixing_sql_attempt_", "1">>,
               <<"validating_sql_attempt_", "2">>, <<"completed">>>>

-----------------------------------------------------------------------------
(* Concurrent runs *)

Messages(logs) == [i \in 1..Len(logs) |-> logs[i].message]

\* the store had the run of t been the only one: init_task and then the
\* task-store calls the run has made, on an empty store
AloneWorld(t) ==
    StoreCalls(init_task([ts |-> <<>>, clk |-> 0], t,
                         <<"sql_generation">>, <<"{inputs}">>),
               t, stores[t].made)

Finished(t) == pc[t] = "done" /\ stores[t].todo = <<>>

\* some entry of u's logs was written between two entries of t's logs
Between(t, u) ==
    \E i \in 1..(Len(task_status[t].logs) - 1), j \in 1..Len(task_status[u].logs) :
        /\ task_status[t].logs[i].timestamp < task_status[u].logs[j].timestamp
        /\ task_status[u].logs[j].timestamp < task_status[t].logs[i + 1].timestamp

(* C20: when runs with distinct task ids execute concurrently, their       *)
(* task-store calls interleaved in any order, each task's status, result,  *)
(* error and log messages are at every moment, and so at the end, what     *)
(* they would be had its run executed alone, and its log entries stand in  *)
(* the order its run wrote them.                                           *)
C20_RunsDoNotInterfere ==
    \A t \in DOMAIN task_status :
        LET mine == task_status[t]
            solo == AloneWorld(t).ts[t]
        IN  /\ mine.status = solo.status
            /\ mine.result = solo.result
            /\ mine.error = solo.error
            /\ Messages(mine.logs) = Messages(solo.logs)
            /\ \A i \in 1..(Len(mine.logs) - 1) :
                 mine.logs[i].timestamp < mine.logs[i + 1].timestamp

\* two runs have finished, one completed and one failed, and each wrote to
\* the store between two writes of the other
C20_Witness ==
    /\ \A t \in TaskIds : Finished(t)
    /\ task_status["A"].status = <<"completed">>
    /\ task_status["A"].result = <<"SELECT g1">>
    /\ task_status["B"].status = <<"failed">>
    /\ task_status["B"].result = None
    /\ Between("A", "B")
    /\ Between("B", "A")

-----------------------------------------------------------------------------
(* The schema a run works with *)

\* destination_schema or self.default_destination_schema is falsy
NoSchema(t) ==
    ~Truthy(Or(args[t].destination_schema, args[t].default_destination_schema))

Running(t) == pc[t] \notin {"off", "idle", "start"}

(* C22: a run that has neither an explicit destination schema nor a        *)
(* default one is over as soon as execute_pipeline has begun: the task is  *)
(* failed with a non-null error, and no collaborator (Generator, sample    *)
(* fetch, Field Analyzer, Enhancer, Validator, Fixer) was called.          *)
C22_MissingSchemaFailsAtOnce ==
    \A t \in TaskIds :
        (Running(t) /\ NoSchema(t))
        => /\ pc[t] = "done"
           /\ task_status[t].status = <<"failed">>
           /\ task_status[t].error # None
           /\ task_status[t].error = <<"No destination schema available.">>
           /\ calls[t] = <<>>
           /\ StatusWrites(t) = <<<<"pipeline_started">>, <<"failed">>>>

\* a run started with no schema of either kind has returned
C22_Witness ==
    \E t \in TaskIds :
        /\ pc[t] = "done"
        /\ args[t].destination_schema = None
        /\ args[t].default_destination_schema = None
        /\ task_status[t].status = <<"failed">>
        /\ Len(task_status[t].logs) = 6

-----------------------------------------------------------------------------
(* C25: in the validate/fix loop each Fixer call is given the script the   *)
(* Validator call just before it rejected, and that call's error message;  *)
(* a script the Fixer returns is the one the next Validator call is given; *)
(* Validator and Fixer calls alternate, so that no validation is repeated  *)
(* without a repair in between and no script the Fixer returned goes       *)
(* unvalidated.                                                            *)
C25_LoopDataFlow ==
    \A t \in TaskIds :
        LET lc == LoopCalls(t)
        IN  /\ \A i \in 1..Len(lc) :
                  lc[i].op = IF i % 2 = 1 THEN "validate_sql_dry_run" ELSE "fix_sql"
            /\ \A i \in 1..Len(lc) :
                  lc[i].op = "fix_sql" =>
                      /\ lc[i - 1].out1 = <<"invalid">>
                      /\ lc[i].in1 = lc[i - 1].in1
                      /\ lc[i].in2 = lc[i - 1].out2
                      /\ ReturnedScript(lc[i]) =>
                            IF i = Len(lc)
                            THEN pc[t] = "validate" /\ loc[t].current_sql = lc[i].out1
                            ELSE lc[i + 1].in1 = lc[i].out1
            /\ \A i \in 1..Len(calls[t]) :
                  calls[t][i].op = "fix_sql" => calls[t][i - 1].op = "validate_sql_dry_run"

\* three validations and two repairs: the two scripts the Fixer returned
\* differ, and so do the errors of the validations that led to them
C25_Witness ==
    \E t \in TaskIds :
        LET lc == LoopCalls(t)
        IN  /\ Len(lc) = 5
            /\ ReturnedScript(lc[2])
            /\ ReturnedScript(lc[4])
            /\ lc[2].out1 # lc[4].out1
            /\ lc[1].out2 # lc[3].out2
            /\ lc[5].in1 = lc[4].out1
            /\ lc[5].in1 # lc[1].in1

-----------------------------------------------------------------------------
(* The sample and the fields of a run, read off its collaborator calls *)

Enhancements(t) == CallsOf(t, "enhance_sql")

\* the caller supplied a non-empty sample, or the fetch returned a row or more
SampleAvailable(t) ==
    \/ Truthy(args[t].source_data_sample_json)
    \/ \E i \in 1..Len(calls[t]) :
          /\ calls[t][i].op = "fetch"
          /\ calls[t][i].out1 \notin {RaiseMark, <<"0">>}

\* the Field Analyzer returned a list with a field or more
Flagged(t) ==
    \E i \in 1..Len(calls[t]) :
        /\ calls[t][i].op = "identify_defaulted_fields"
        /\ calls[t][i].out1 # RaiseMark
        /\ Truthy(calls[t][i].out1)

Occurrences(s, x) == Len(SelectSeq(s, LAMBDA y : y = x))

(* C26: a run calls the Enhancer if and only if a non-empty sample is      *)
(* available (supplied by the caller, or fetched with a row or more) and   *)
(* the Field Analyzer flagged a critical field or more; it writes the      *)
(* status performing_semantic_enhancement in exactly those runs, just      *)
(* before the call, and calls the Enhancer at most once.                   *)
C26_EnhancerCalledIffFlagged ==
    \A t \in TaskIds :
        LET due     == SampleAvailable(t) /\ Flagged(t)
            written == Occurrences(StatusWrites(t), <<"performing_semantic_enhancement">>)
        IN  t \in DOMAIN task_status =>
              /\ Len(Enhancements(t)) <= 1
              /\ Len(CallsOf(t, "identify_defaulted_fields")) >= 1 => SampleAvailable(t)
              /\ Len(Enhancements(t)) = 1 => due
              /\ due => (Len(Enhancements(t)) = 1 \/ pc[t] = "enhance")
              /\ pc[t] = "done" => (Len(Enhancements(t)) = 1 <=> due)
              /\ written = (IF due THEN 1 ELSE 0)
              /\ Len(Enhancements(t)) = 1 =>
                    Enhancements(t)[1].in2 = CallsOf(t, "identify_defaulted_fields")[1].out1

\* a run that fetched its sample (three rows), was flagged a field, called
\* the Enhancer and has returned
C26_Witness ==
    \E t \in TaskIds :
        /\ pc[t] = "done"
        /\ ~Truthy(args[t].source_data_sample_json)
        /\ SampleAvailable(t)
        /\ Flagged(t)
        /\ Len(Enhancements(t)) = 1
        /\ Len(Validations(t)) >= 1

-----------------------------------------------------------------------------
(* C23: _apply_programmatic_fixes is idempotent: applied to its own result *)
(* it returns that result, whatever the text it was given, texts that      *)
(* begin with one, two, three or more backticks among them.                *)
C23_FixesAreIdempotent ==
    io.fn = "_apply_programmatic_fixes" => ApplyProgrammaticFixes(io.out) = io.out

-----------------------------------------------------------------------------
(* The select lists the Field Analyzer is asked about *)

\* the placeholder literals of a defaulted field
Placeholders == {"NULL", "0", "FALSE", "[]", "''"}

\* the SQL holds "d AS f" after a whitespace character, f ending there
MapsLiteral(sql, d, f) ==
    \E i \in 2..(Len(sql) - 4) :
        /\ OccursAt(sql, <<d, " ", "AS", " ", f>>, i)
        /\ sql[i - 1] \in Whitespace
        /\ ~IsWord(At(sql, i + 5))

\* the SQL holds "source.f AS f" and no literal mapped to f
MapsSourceColumn(sql, f) ==
    /\ \E i \in 1..(Len(sql) - 6) :
          OccursAt(sql, <<"source", ".", f, " ", "AS", " ", f>>, i)
    /\ \A i \in 1..Len(sql) :
          sql[i] = f => At(sql, i - 4) \notin {"NULL", "null", "0", "FALSE", "[]", "''"}

(* C24: for a flat critical field f, identify_defaulted_fields returns     *)
(* exactly [f] on SQL that holds "d AS f" after whitespace, d one of NULL, *)
(* 0, FALSE, [], '', and the empty list on SQL that maps f from a source   *)
(* column; its result holds no field twice.                                *)
C24_DefaultedFieldsFound ==
    io.fn = "identify_defaulted_fields" =>
        LET sql == io.in[1]
            cf  == io.in[2]
        IN  /\ \A i, j \in 1..Len(io.out) : io.out[i] = io.out[j] => i = j
            /\ \A f \in AnalyzerFields :
                 cf = <<f>> =>
                    /\ (\E d \in Placeholders : MapsLiteral(sql, d, f)) => io.out = <<f>>
                    /\ MapsSourceColumn(sql, f) => io.out = <<>>

-----------------------------------------------------------------------------
(* The Fixer's answers *)

\* fix_sql was called and generate_content returned r without an error
FixerAnswered == io.fn = "fix_sql" /\ ~Truthy(io.in[3].error)

(* C28: whatever generate_content returns (an error, a function call with *)
(* or without fixed_sql, text that is extractable SQL, other text,         *)
(* nothing), fix_sql returns and does not raise, and it returns either a   *)
(* script and no error or no script and an error.                          *)
C28_FixSqlReturnsScriptOrError ==
    io.fn = "fix_sql" =>
        /\ ~io.out.raised
        /\ (io.out.val = None) # (io.out.err = None)
        /\ io.out.val # None => Truthy(io.out.val)
        /\ io.out.err # None => Truthy(io.out.err)

\* a function call without fixed_sql and a text that is no SQL: no script
C28_Witness ==
    /\ FixerAnswered
    /\ io.in[3].call.name = SQL_FIX_OUTPUT_SCHEMA
    /\ ~HasKey(io.in[3].call.args, "fixed_sql")
    /\ io.in[3].text = <<"Sorry">>
    /\ io.out.val = None
    /\ Truthy(io.out.err)

\* the candidate of the priority order: the fixed_sql of the function call,
\* the SQL extracted from the text, the text itself when it starts with
\* CREATE OR REPLACE TABLE or SELECT, or none
CandidateByPriority(r) ==
    IF Truthy(StructuredFix(r))
    THEN StructuredFix(r)
    ELSE IF Truthy(r.text) /\ Truthy(extract_sql_from_text(r.text))
    THEN extract_sql_from_text(r.text)
    ELSE IF Truthy(r.text) /\ LooksLikeSql(strip(r.text))
    THEN strip(r.text)
    ELSE None

(* C29: fix_sql takes its candidate in a fixed order: the fixed_sql of the *)
(* function call when there is one and it is not empty, else the SQL       *)
(* extracted from the text, else the text itself if it starts with CREATE  *)
(* OR REPLACE TABLE or SELECT, else it returns an error.  What it returns  *)
(* is that candidate after the formatting fixes, or an error when the      *)
(* candidate fails the gate; the text never replaces a usable fixed_sql.   *)
C29_CandidatePriority ==
    FixerAnswered =>
        IF CandidateByPriority(io.in[3]) = None
        THEN io.out.val = None /\ Truthy(io.out.err)
        ELSE IF LooksLikeSql(ApplyProgrammaticFixes(CandidateByPriority(io.in[3])))
        THEN io.out = Returned(ApplyProgrammaticFixes(CandidateByPriority(io.in[3])), None)
        ELSE io.out.val = None /\ Truthy(io.out.err)

\* a usable fixed_sql and a text that holds another script: the fixed_sql is
\* returned
C29_Witness ==
    /\ FixerAnswered
    /\ StructuredFix(io.in[3]) = <<"SELECT", " ", "name">>
    /\ extract_sql_from_text(io.in[3].text) = <<"SELECT", " ", "id">>
    /\ io.out = Returned(<<"SELECT", " ", "name">>, None)

-----------------------------------------------------------------------------
(* The scripts of a run and the responses behind them *)

\* the script begins, whatever its case, with CREATE OR REPLACE TABLE or SELECT
BeginsWithCreateOrSelect(script) ==
    \E head \in {CreateOrReplaceTable, <<"SELECT">>} : startswith(upper(script), head)

\* the script a collaborator makes of the text of a response: the SQL
\* extracted from it, or the stripped text, after the formatting fixes
ScriptOfText(text) ==
    ApplyProgrammaticFixes(IF Truthy(extract_sql_from_text(text))
                           THEN extract_sql_from_text(text)
                           ELSE strip(text))

\* the failures of the Enhancer: generate_content returned an error, or no
\* text, or a text whose script fails the looks-like-SQL check
EnhancerFailed(r) ==
    \/ Truthy(r.error)
    \/ ~Truthy(r.text)
    \/ ~BeginsWithCreateOrSelect(ScriptOfText(r.text))

Generations(t) == CallsOf(t, "generate")

EnhancementWarning(enhance_error_msg) ==
    <<"WARNING: Semantic enhancement issue: ">> \o enhance_error_msg
        \o <<". Continuing with previous SQL.">>

(* C21: when the Enhancer fails (generate_content returns an error or no   *)
(* text, or the text fails the looks-like-SQL check), enhance_sql returns  *)
(* the script it was given together with an error; the pipeline logs a     *)
(* warning and goes on to validation, the run is not failed by it, and the *)
(* first Validator call is given the Generator's script.                   *)
C21_EnhancerFailureNotFatal ==
    \A t \in TaskIds :
        /\ (io.fn = "enhance_sql" /\ EnhancerFailed(io.in[2])) =>
              /\ ~io.out.raised
              /\ io.out.val = io.in[1]
              /\ Truthy(io.out.err)
        /\ \A i \in 1..Len(Enhancements(t)) :
              Truthy(Enhancements(t)[i].out2) =>
                /\ Enhancements(t)[i].out1 = Generations(t)[1].out1
                /\ \E j \in 1..Len(task_status[t].logs) :
                      task_status[t].logs[j].message
                          = EnhancementWarning(Enhancements(t)[i].out2)
                /\ Len(Validations(t)) >= 1 =>
                      Validations(t)[1].in1 = Generations(t)[1].out1
                /\ (Last(calls[t]).op = "enhance_sql" /\ MaxFix(t) >= 0) =>
                      /\ pc[t] = "validate"
                      /\ task_status[t].status = <<"validating_sql_attempt_", "1">>

\* the Enhancer answered with a WITH statement, the Generator's script was
\* validated and the run completed
C21_Witness ==
    \E t \in TaskIds :
        /\ pc[t] = "done"
        /\ task_status[t].status = <<"completed">>
        /\ io.fn = "enhance_sql"
        /\ io.in[2].text = WithSelect
        /\ Len(Enhancements(t)) = 1
        /\ Truthy(Enhancements(t)[1].out2)
        /\ Validations(t)[1].in1 = Generations(t)[1].out1

(* C27: every script a run hands the Validator begins, whatever its case,  *)
(* with CREATE OR REPLACE TABLE or SELECT.  The Generator, the Enhancer    *)
(* and the Fixer return a script without an error only if it does so       *)
(* after the formatting fixes; a text response that passes the extraction  *)
(* but not this test (one that begins with WITH, INSERT, UPDATE or DELETE) *)
(* is answered with an error and is not validated.                         *)
C27_ValidatedScriptsPassGate ==
    \A t \in TaskIds :
        /\ \A i \in 1..Len(Validations(t)) :
              BeginsWithCreateOrSelect(Validations(t)[i].in1)
        /\ io.fn \in {"generate", "enhance_sql", "fix_sql"} =>
              /\ io.out.err = None => BeginsWithCreateOrSelect(io.out.val)
              /\ LET r == io.in[Len(io.in)]
                 IN  (/\ r.call = NoFunctionCall
                      /\ Truthy(extract_sql_from_text(r.text))
                      /\ ~BeginsWithCreateOrSelect(ScriptOfText(r.text))) =>
                        /\ Truthy(io.out.err)
                        /\ io.fn # "enhance_sql" => io.out.val = None
                        /\ \A i \in 1..Len(Validations(t)) :
                              Validations(t)[i].in1 # ScriptOfText(r.text)

\* the Generator made its script of a fenced, lower-case create or replace
\* table, the Validator rejected it, the Fixer answered with a WITH statement
\* and the run failed
C27_Witness ==
    \E t \in TaskIds :
        /\ pc[t] = "done"
        /\ Len(Validations(t)) = 1
        /\ startswith(Validations(t)[1].in1, CreateOrReplaceTable)
        /\ io.fn = "fix_sql"
        /\ io.in[3].text = WithSelect
        /\ io.in[3].call = NoFunctionCall
        /\ io.out.val = None

-----------------------------------------------------------------------------
(* C30: over any runs of process_products, interrupted or not, a product's  *)
(* retry_count never exceeds 3, start_product_processing is called on a     *)
(* product at most 4 times, and a product whose status is completed or      *)
(* permanently_failed is never started again.                               *)
C30_RetriesAreBounded ==
    /\ \A p \in Products :
          /\ firestore.docs[p].retry_count <= 3
          /\ firestore.starts[p] <= 4
    /\ ~firestore.restarted

\* a product failed on its fourth start and is permanently failed, the other
\* is completed, and a later run has gone past both of them
C30_Witness ==
    /\ \E p, q \in Products :
          /\ firestore.docs[p] = Doc("permanently_failed", 3)
          /\ firestore.starts[p] = 4
          /\ firestore.docs[q].status = "completed"
    /\ firestore.at = "new"
    /\ firestore.todo = <<>>
    /\ firestore.last_id = MaxProducts
    /\ firestore.last_processed_id < MaxProducts

====
